---- MODULE Spec2Model ----
(***************************************************************************)
(* A model of the Snapshotter of etcd-backup-restore                       *)
(* (pkg/snapshot/snapshotter/snapshotter.go): the Run goroutine with its   *)
(* startup catch-up and event loop, the external trigger callers, the      *)
(* mutex guarding SsrState, the KV store's revision and the watch on it.   *)
(***************************************************************************)
EXTENDS Integers, Sequences, FiniteSets, TLC

\* ------------------------------------------------------------------ bounds
\* Highest revision the KV store reaches.
MaxRev == 2
\* Number of concurrent callers of TriggerFullSnapshot / TriggerDeltaSnapshot.
NumCallers == 2
\* Largest DeltaSnapshotMemoryLimit (bytes) a configuration carries.
MaxMemLimit == 4
\* Latest hour the clock shows at startup.
MaxHour == 6
\* Number of members of the KV cluster, each with its sidecar.
NumMembers == 2
\* Latest modification time the store credentials reach.
MaxSecretTime == 2

Callers == 1..NumCallers

\* ------------------------------------------------------------------ state
VARIABLES
    cfg,                 \* ssr.config: deltaEnabled, memLimit, scheduleHasNext
    SsrState,            \* "Active" | "Inactive"
    SsrStateMutex,       \* 0 = unlocked, c = held by caller c
    PrevSnapshot,
    PrevFullSnapshot,
    PrevDeltaSnapshots,
    events,              \* the event buffer: ModRevisions of the buffered events
    lastEventRevision,
    watchCh,             \* 0 = nil, n > 0 = open watch whose next event has revision n
    fullSnapshotTimer,   \* "nil" | "armed" | "expired"
    deltaSnapshotTimer,
    etcdRev,             \* latest revision of the KV store
    pc,                  \* position of the Run goroutine
    ctx,                 \* what started the snapshot in progress
    saving,              \* the snapshot handed to the Snap Store's Save
    res,                 \* result waiting to be sent on an ack channel
    lastEtcdRevision,    \* catch-up target of CollectEventsSincePrevSnapshot
    stopCh,              \* TRUE once the stop channel has fired for this Run
    runErr,              \* what Run returned ("none" = nil)
    cpc,                 \* position of each trigger caller
    carg,                \* isFinal of each caller's TriggerFullSnapshot
    ret,                 \* the result of the trigger call returning in this step
    saved,               \* history: the last two snapshots this Snapshotter saved
    inFlight,            \* history: number of Save calls that began and did not end
    saveEnded,           \* history: "saved" or "failed" when a Save ends in this
                         \* step, else "none"
    initPrev,            \* history: PrevSnapshot at construction
    lossDuringTrigger,   \* history: the stop channel fired while an externally
                         \* triggered snapshot was in progress
    store,               \* ssr.store: the modification time of the credentials
                         \* the Snap Store handle was built with
    lastSecretModifiedTime,
    secretModifiedTime,  \* what GetSnapstoreSecretModifiedTime returns: 0 for
                         \* credentials without a modification time
    rot,                 \* history: what the credential check of this step
                         \* found: "none", or the handle "rebuilt" / "failed"
    \* the leader electors of the sidecars and the KV cluster they probe
    CurrentState,        \* le.CurrentState of each sidecar's elector
    etcdLeader,          \* the member leading the KV cluster, 0 = none
    learner,             \* the members that are learners (non-voting)
    snapshotterStarted,  \* OnStartedLeading invoked, OnStoppedLeading not yet
    leaseRenewal,        \* StartLeaseRenewal invoked, StopLeaseRenewal not yet
    lastProbe,           \* the probe handled in this step, if any
    invoked,             \* the callbacks invoked in this step, in order
    \* Initialize of the sidecar's initializer, the data directory, the member
    given,               \* what this Initialize call meets: mode, heartbeat,
                         \* scale-up, cluster size, validation status, snap store
    ipc,                 \* position of Initialize
    iret,                \* "running", or how Initialize ended
    dataDir,             \* contents of the data directory
    partDir,             \* contents of the directory dataDir.part
    membership,          \* this member in the cluster: "none", "voting", "learner"
    attempts,            \* attempts made by AddLearnerWithRetry
    ilog,                \* history: what Initialize has done so far
    \* the decisions made at startup on the full-snapshot schedule
    fullSnapScheduleSpec, \* the cron expression, as its characters
    timeWindow,          \* what GetFullSnapshotMaxTimeWindow returned, -1 = not
                         \* called
    startup,             \* what IsFullSnapshotRequiredAtStartup meets: the
                         \* previous full snapshot, the clock, the schedule
    required,            \* what it returned, "notCalled" before
    \* Run and its deferred stop() with the full-snapshot lease renewal
    SnapshotLeaseRenewalEnabled, \* ssr.HealthConfig.SnapshotLeaseRenewalEnabled
    runArgs,             \* startWithFullSnapshot, and whether ssr.watchCh is nil
    rpc,                 \* position of Run, "notCalled" before
    rerr,                \* what Run is returning or has returned
    timers,              \* ssr.fullSnapshotTimer, ssr.deltaSnapshotTimer: set or nil
    renewer              \* the goroutine RenewFullSnapshotLeasePeriodically:
                         \* "none", "running", "stopped"

secretVars == <<store, lastSecretModifiedTime, secretModifiedTime, rot>>

ssrVars == <<secretVars, cfg, SsrState, SsrStateMutex, PrevSnapshot, PrevFullSnapshot,
          PrevDeltaSnapshots, events, lastEventRevision, watchCh,
          fullSnapshotTimer, deltaSnapshotTimer, etcdRev, pc, ctx, saving, res,
          lastEtcdRevision, stopCh, runErr, cpc, carg, ret, saved, inFlight,
          saveEnded, initPrev, lossDuringTrigger>>

electorVars == <<CurrentState, etcdLeader, learner, snapshotterStarted,
                 leaseRenewal, lastProbe, invoked>>

initializerVars == <<given, ipc, iret, dataDir, partDir, membership, attempts, ilog>>

startupVars == <<fullSnapScheduleSpec, timeWindow, startup, required>>

leaseVars == <<SnapshotLeaseRenewalEnabled, runArgs, rpc, rerr, timers, renewer>>

\* What the Snapshotter's steps leave alone.
outsideVars == <<electorVars, initializerVars, startupVars, leaseVars>>

\* What the steps of the electors and of the initializer leave alone.
snapshotterVars == <<ssrVars, startupVars, leaseVars>>

vars == <<ssrVars, outsideVars>>

snapVars == <<PrevSnapshot, PrevFullSnapshot, PrevDeltaSnapshots, saved>>
bufVars == <<events, lastEventRevision>>
callerVars == <<cpc, carg, SsrStateMutex>>
envVars == <<cfg, etcdRev, stopCh, lossDuringTrigger, initPrev, SsrState>>

\* ---------------------------------------------------------------- helpers
NoSnap == [kind |-> "None", start |-> 0, last |-> 0, final |-> FALSE]

NewSnapshot(kind, start, last, final) ==
    [kind |-> kind, start |-> start, last |-> last, final |-> final]

NoSaving == [snap |-> NoSnap, content |-> <<>>]
NoRes == [snap |-> NoSnap, err |-> "none"]
Result(s, e) == [snap |-> s, err |-> e]
\* ret when no call returns in the step, and when one returns r
NoRet == [returned |-> FALSE, snap |-> NoSnap, err |-> "none"]
Returned(r) == [returned |-> TRUE, snap |-> r.snap, err |-> r.err]

\* json.Marshal of one timed event: its length in bytes.
EventJsonLen == 1

\* len(ssr.events) for a buffer holding the events evs: each event is
\* preceded by '[' or ',' and followed by its JSON.
BufLen(evs) == Len(evs) * (1 + EventJsonLen)

Revs(a, b) == [i \in 1..(b - a + 1) |-> a + i - 1]

Last(s) == s[Len(s)]

\* The history of saves after one more: the two most recent are kept.
Record(log, entry) == IF Len(log) < 2 THEN Append(log, entry) ELSE <<log[2], entry>>

IsActiveMut(s) == TRUE
\* the check of TriggerFullSnapshot / TriggerDeltaSnapshot on SsrState
IsActive(s) == s = "Active"

MemoryLimitReachedMut(n, limit) == n > limit
\* handleDeltaWatchEvents: len(ssr.events) >= DeltaSnapshotMemoryLimit
MemoryLimitReached(n, limit) == n >= limit

SkipFinalMut(isFinal, prev, lastRevision) == FALSE
\* takeFullSnapshot: a final full snapshot is skipped when the previous
\* snapshot is a final full snapshot at the same revision
SkipFinal(isFinal, prev, lastRevision) ==
    /\ isFinal
    /\ prev.final
    /\ prev.kind = "Full"
    /\ prev.last = lastRevision

NewDeltaSnapshotMut(prev, lastRev) == NewSnapshot("Delta", prev.last, lastRev, FALSE)
\* TakeDeltaSnapshot: the descriptor of the delta about to be saved
NewDeltaSnapshot(prev, lastRev) == NewSnapshot("Delta", prev.last + 1, lastRev, FALSE)

LastEventRevisionAfterMut(old, batch) == IF Len(batch) = 0 THEN old ELSE batch[1]
\* handleDeltaWatchEvents: ssr.lastEventRevision after the events of one
\* watch response have been appended
LastEventRevisionAfter(old, batch) == IF Len(batch) = 0 THEN old ELSE Last(batch)

\* ------------------------------------------------------------------- Init
\* What GetLatestFullSnapshotAndDeltaSnapList finds in the store at
\* construction: <<latest full, deltas after it>>.
InitChains ==
    { <<NoSnap, <<>>>>,
      <<NewSnapshot("Full", 0, 0, TRUE), <<>>>>,
      <<NewSnapshot("Full", 0, 0, FALSE), <<NewSnapshot("Delta", 1, 1, FALSE)>>>> }

InitialPrevSnapshotMut(fullSnap, deltaSnapList) ==
    IF fullSnap # NoSnap THEN fullSnap ELSE NewSnapshot("Full", 0, 0, FALSE)
\* NewSnapshotter: PrevSnapshot from the chain found in the store
InitialPrevSnapshot(fullSnap, deltaSnapList) ==
    IF fullSnap # NoSnap /\ Len(deltaSnapList) = 0 THEN fullSnap
    ELSE IF fullSnap # NoSnap THEN Last(deltaSnapList)
    ELSE NewSnapshot("Full", 0, 0, FALSE)

\* ---------------------------------------------------- the leader electors
Members == 1..NumMembers

NoProbe == [member |-> 0, from |-> "none", isLeader |-> FALSE,
            isLearner |-> FALSE, err |-> FALSE]

\* NewLeaderElector: every elector starts as Follower, its Snapshotter not
\* started; the member lease is being renewed.
NewLeaderElector ==
    /\ CurrentState = [m \in Members |-> "Follower"]
    /\ snapshotterStarted = [m \in Members |-> FALSE]
    /\ leaseRenewal = [m \in Members |-> TRUE]
    /\ lastProbe = NoProbe
    /\ invoked = <<>>

\* The electors and their cluster as the Snapshotter's specification holds
\* them: not running.
ElectorsParked ==
    /\ NewLeaderElector
    /\ etcdLeader = 0
    /\ learner = {}

\* -------------------------------------------------------- the initializer
\* addLearnerAttempts: the attempts made to add a learner
addLearnerAttempts == 6

\* The statuses of validator.Validate that Initialize tells apart, and
\* DataDirectoryNotExist for every other one (a directory yet to be made).
Statuses ==
    {"WrongVolumeMounted", "FailToOpenBoltDBError", "DataDirectoryStatusUnknown",
     "FailBelowRevisionConsistencyError", "DataDirectoryValid",
     "DataDirStatusInvalidInMultiNode", "DataDirectoryCorrupt",
     "DataDirectoryNotExist"}

\* The snap store as restoreCorruptData meets it: no configuration, no
\* provider configured, a store that cannot be opened or listed, a store
\* without snapshots, a store with a snapshot chain.
Stores == {"nil", "noProvider", "unavailable", "empty", "chain"}

\* NewInitializer and what one call of Initialize meets.
NewInitializer(input) ==
    /\ given = input
    /\ ipc = "start"
    /\ iret = "running"
    /\ dataDir = input.dataDir0
    /\ partDir = input.partDir0
    /\ membership = (IF input.heartbeat THEN "voting" ELSE "none")
    /\ attempts = 0
    /\ ilog = {}

\* The initializer as the other specifications hold it: not called.
InitializerParked ==
    NewInitializer([multiNode |-> FALSE, heartbeat |-> FALSE, scaleUp |-> "no",
                    OriginalClusterSize |-> 1, status |-> "DataDirectoryValid",
                    store |-> "nil", dataDir0 |-> "previous",
                    partDir0 |-> "absent"])

\* ------------------------------------------------ the startup decisions
\* The schedule fields and the default time window.
hour == 1
dayOfMonth == 2
dayOfWeek == 4
defaultFullSnapMaxTimeWindow == 24

\* A previous full snapshot that does not exist.
NoPrevFull == [exists |-> FALSE, CreatedOn |-> 0, IsFinal |-> FALSE]

\* The startup decisions as the other specifications hold them: not made.
StartupParked ==
    /\ fullSnapScheduleSpec = <<>>
    /\ timeWindow = -1
    /\ startup = [PrevFullSnapshot |-> NoPrevFull,
                  PrevFullSnapshotSucceeded |-> TRUE, now |-> 0,
                  timeWindow |-> defaultFullSnapMaxTimeWindow]
    /\ required = "notCalled"

\* NewSnapshotter with configuration config over the chain found in the store.
\* Run with lease renewal, as the other specifications hold it: not called.
NoTimers == [full |-> "nil", delta |-> "nil"]

LeaseParked ==
    /\ SnapshotLeaseRenewalEnabled = FALSE
    /\ runArgs = [startWithFullSnapshot |-> TRUE, watchNil |-> TRUE]
    /\ rpc = "notCalled"
    /\ rerr = "none"
    /\ timers = NoTimers
    /\ renewer = "none"

NewSnapshotter(config, chain) ==
    /\ cfg = config
    /\ PrevFullSnapshot = chain[1]
    /\ PrevDeltaSnapshots = chain[2]
    /\ PrevSnapshot = InitialPrevSnapshot(chain[1], chain[2])
    /\ initPrev = InitialPrevSnapshot(chain[1], chain[2])
    /\ etcdRev = InitialPrevSnapshot(chain[1], chain[2]).last
    /\ SsrState = "Inactive"
    /\ SsrStateMutex = 0
    /\ events = <<>>
    /\ lastEventRevision = 0
    /\ watchCh = 0
    /\ fullSnapshotTimer = "nil"
    /\ deltaSnapshotTimer = "nil"
    /\ pc = "stopped"
    /\ ctx = "none"
    /\ saving = NoSaving
    /\ res = NoRes
    /\ lastEtcdRevision = 0
    /\ stopCh = FALSE
    /\ lossDuringTrigger = FALSE
    /\ runErr = "none"
    /\ cpc = [c \in Callers |-> "idle"]
    /\ carg = [c \in Callers |-> FALSE]
    /\ ret = NoRet
    /\ saved = <<>>
    /\ inFlight = 0
    /\ saveEnded = "none"
    /\ store = secretModifiedTime
    /\ lastSecretModifiedTime = 0
    /\ rot = "none"

Init ==
    /\ secretModifiedTime = 0
    /\ \E config \in [deltaEnabled : BOOLEAN, memLimit : {2, MaxMemLimit},
                       scheduleHasNext : BOOLEAN], chain \in InitChains :
          NewSnapshotter(config, chain)
    /\ ElectorsParked
    /\ InitializerParked
    /\ StartupParked
    /\ LeaseParked

\* ------------------------------------------------- the credential check
HasSnapStoreSecretUpdatedMut(newTime, lastTime) == newTime >= lastTime
\* hasSnapStoreSecretUpdated: newSecretModifiedTime.After(lastSecretModifiedTime)
HasSnapStoreSecretUpdated(newTime, lastTime) == newTime > lastTime

\* What the credential check of takeFullSnapshot / TakeDeltaSnapshot can
\* come to: nothing detected, or a change detected and the Snap Store handle
\* rebuilt by GetSnapstore, or GetSnapstore failing.
SecretOutcomes ==
    IF HasSnapStoreSecretUpdated(secretModifiedTime, lastSecretModifiedTime)
    THEN {"rebuilt", "failed"}
    ELSE {"none"}

\* hasSnapStoreSecretUpdated and the replacement of ssr.store, with outcome o.
CheckSecret(o) ==
    /\ rot' = o
    /\ lastSecretModifiedTime' = (IF o = "none" THEN lastSecretModifiedTime
                                  ELSE secretModifiedTime)
    /\ store' = (IF o = "rebuilt" THEN secretModifiedTime ELSE store)

\* A path on which the credentials are not checked.
SecretUnchecked ==
    /\ rot' = "none"
    /\ UNCHANGED <<store, lastSecretModifiedTime>>

\* A step that checks no credentials and in which they do not change.
NoSecretCheck == SecretUnchecked /\ UNCHANGED secretModifiedTime

\* ------------------------------------------------- the Run goroutine: exits
\* Run returns err: the deferred stop() halts and clears both timers and
\* then waits for the mutex in SetSnapshotterInactive.
Return(err) ==
    /\ pc' = "stop"
    /\ runErr' = err
    /\ res' = NoRes
    /\ fullSnapshotTimer' = "nil"
    /\ deltaSnapshotTimer' = "nil"
    /\ lastEtcdRevision' = 0

\* Run after the catch-up: resetFullSnapshotTimer, the delta timer, and
\* into snapshotEventHandler.
StartLoop ==
    IF cfg.scheduleHasNext
    THEN /\ pc' = "select"
         /\ fullSnapshotTimer' = "armed"
         /\ deltaSnapshotTimer' = "armed"
         /\ res' = NoRes
         /\ lastEtcdRevision' = 0
         /\ runErr' = "none"
    ELSE Return("schedule")

ExitsOnErrorMut(err) == FALSE
\* snapshotEventHandler, CollectEventsSincePrevSnapshot: "if err != nil
\* { return err }" after every snapshot attempt
ExitsOnError(err) == err # "none"

\* Where the goroutine goes once an operation started in context c ended
\* with result r; ft and dt are the timers as the operation left them, w the
\* watch as it left it.
Conclude(c, ack, r, ft, dt, w) ==
    IF c = "trigger"
    THEN /\ pc' = ack
         /\ res' = r
         /\ fullSnapshotTimer' = ft
         /\ deltaSnapshotTimer' = dt
         /\ lastEtcdRevision' = 0
         /\ runErr' = "none"
    ELSE IF ExitsOnError(r.err)
    THEN Return(r.err)
    ELSE IF c = "catchup" /\ w - 1 < lastEtcdRevision
    THEN /\ pc' = "catchup"
         /\ res' = NoRes
         /\ fullSnapshotTimer' = ft
         /\ deltaSnapshotTimer' = dt
         /\ runErr' = "none"
         /\ UNCHANGED lastEtcdRevision
    ELSE IF c = "catchup"
    THEN StartLoop
    ELSE /\ pc' = "select"
         /\ res' = NoRes
         /\ fullSnapshotTimer' = ft
         /\ deltaSnapshotTimer' = dt
         /\ lastEtcdRevision' = 0
         /\ runErr' = "none"

\* --------------------------------------------- the Run goroutine: snapshots
NoEventsToSaveMut(evs) == FALSE
\* TakeDeltaSnapshot: if len(ssr.events) == 0
NoEventsToSave(evs) == Len(evs) = 0

\* takeDeltaSnapshotAndResetTimer up to the call of store.Save, for the
\* buffer evs in context c. An empty buffer is skipped (nil, nil) and the
\* delta timer re-armed; a failure before Save (credential check, store
\* handle, compression) returns the error. The deferred
\* cleanupInMemoryEvents runs on every return.
TakeDelta(c, evs, lastEv, ft, dt, w) ==
    IF NoEventsToSave(evs)
    THEN /\ events' = <<>>
         /\ lastEventRevision' = -1
         /\ ctx' = "none"
         /\ saving' = NoSaving
         /\ SecretUnchecked
         /\ UNCHANGED <<snapVars, inFlight>>
         /\ Conclude(c, "ackDelta", NoRes, ft, "armed", w)
    ELSE \E o \in SecretOutcomes, pre \in {"none", "secret"} :
         /\ CheckSecret(o)
         /\ IF o = "failed"
            THEN /\ events' = <<>>
                 /\ lastEventRevision' = -1
                 /\ ctx' = "none"
                 /\ saving' = NoSaving
                 /\ UNCHANGED <<snapVars, inFlight>>
                 /\ Conclude(c, "ackDelta", Result(NoSnap, "snapstore"), ft, dt, w)
            ELSE
            IF pre # "none"
            THEN /\ events' = <<>>
                 /\ lastEventRevision' = -1
                 /\ ctx' = "none"
                 /\ saving' = NoSaving
                 /\ UNCHANGED <<snapVars, inFlight>>
                 /\ Conclude(c, "ackDelta", Result(NoSnap, pre), ft, dt, w)
            ELSE /\ events' = evs
                 /\ lastEventRevision' = lastEv
                 /\ pc' = "deltaSave"
                 /\ ctx' = c
                 /\ saving' = [snap |-> NewDeltaSnapshot(PrevSnapshot, lastEv),
                               content |-> evs]
                 /\ inFlight' = inFlight + 1
                 /\ fullSnapshotTimer' = ft
                 /\ deltaSnapshotTimer' = dt
                 /\ res' = NoRes
                 /\ runErr' = "none"
                 /\ UNCHANGED <<snapVars, lastEtcdRevision>>

\* store.Save of a delta returns: TakeDeltaSnapshot from Save on, the timer
\* reset of takeDeltaSnapshotAndResetTimer, and back to the caller.
DeltaSaveDone ==
    /\ pc = "deltaSave"
    /\ inFlight' = inFlight - 1
    /\ events' = <<>>
    /\ lastEventRevision' = -1
    /\ ctx' = "none"
    /\ saving' = NoSaving
    /\ \E ok \in BOOLEAN :
          IF ok
          THEN /\ saveEnded' = "saved"
               /\ PrevSnapshot' = saving.snap
               /\ PrevDeltaSnapshots' = Append(PrevDeltaSnapshots, saving.snap)
               /\ saved' = Record(saved, saving)
               /\ UNCHANGED PrevFullSnapshot
               /\ Conclude(ctx, "ackDelta", Result(saving.snap, "none"),
                           fullSnapshotTimer, "armed", watchCh)
          ELSE /\ saveEnded' = "failed"
               /\ UNCHANGED snapVars
               /\ Conclude(ctx, "ackDelta", Result(NoSnap, "store"),
                           fullSnapshotTimer, deltaSnapshotTimer, watchCh)
    /\ ret' = NoRet
    /\ UNCHANGED <<watchCh, callerVars, envVars>>
    /\ NoSecretCheck
    /\ UNCHANGED outsideVars

NewWatchRevisionMut(prev) == prev.last
\* takeFullSnapshot: clientv3.WithRev(ssr.PrevSnapshot.LastRevision + 1)
NewWatchRevision(prev) == prev.last + 1

\* takeFullSnapshot after the snapshot was saved or skipped, and the timer
\* reset of TakeFullSnapshotAndResetTimer: no watch when delta snapshotting
\* is disabled, else a new watch from PrevSnapshot.LastRevision + 1 (the
\* watch client may fail); the buffer is cleaned up on return.
FullPost(c, s, ft, dt) ==
    /\ events' = <<>>
    /\ lastEventRevision' = -1
    /\ ctx' = "none"
    /\ saving' = NoSaving
    /\ \E watcherOK \in BOOLEAN :
          LET w == IF cfg.deltaEnabled /\ watcherOK THEN NewWatchRevision(s) ELSE 0
              r1 == IF cfg.deltaEnabled /\ ~watcherOK
                    THEN Result(NoSnap, "etcd") ELSE Result(s, "none")
              r2 == IF r1.err # "none" THEN r1
                    ELSE IF cfg.scheduleHasNext THEN r1
                    ELSE Result(s, "schedule")
              ft2 == IF r2.err = "none" THEN "armed" ELSE ft
          IN  /\ watchCh' = w
              /\ Conclude(c, "ackFull", r2, ft2, dt, w)

\* TakeFullSnapshotAndResetTimer up to the call that saves the snapshot:
\* the watch is closed, the credentials checked, the latest revision read.
TakeFull(c, isFinal, ft, dt) ==
    \E o \in SecretOutcomes, pre \in {"none", "etcd"} :
       /\ CheckSecret(o)
       /\ IF o = "failed"
          THEN /\ watchCh' = 0
               /\ events' = <<>>
               /\ lastEventRevision' = -1
               /\ ctx' = "none"
               /\ saving' = NoSaving
               /\ UNCHANGED <<snapVars, inFlight>>
               /\ Conclude(c, "ackFull", Result(NoSnap, "snapstore"), ft, dt, 0)
          ELSE
          IF pre # "none"
          THEN /\ watchCh' = 0
               /\ events' = <<>>
               /\ lastEventRevision' = -1
               /\ ctx' = "none"
               /\ saving' = NoSaving
               /\ UNCHANGED <<snapVars, inFlight>>
               /\ Conclude(c, "ackFull", Result(NoSnap, pre), ft, dt, 0)
          ELSE IF SkipFinal(isFinal, PrevSnapshot, etcdRev)
          THEN /\ UNCHANGED <<snapVars, inFlight>>
               /\ FullPost(c, PrevSnapshot, ft, dt)
          ELSE /\ watchCh' = 0
               /\ pc' = "fullSave"
               /\ ctx' = c
               /\ saving' = [snap |-> NewSnapshot("Full", 0, etcdRev, isFinal),
                             content |-> <<>>]
               /\ inFlight' = inFlight + 1
               /\ fullSnapshotTimer' = ft
               /\ deltaSnapshotTimer' = dt
               /\ res' = NoRes
               /\ runErr' = "none"
               /\ UNCHANGED <<snapVars, bufVars, lastEtcdRevision>>

\* The save of a full snapshot returns.
FullSaveDone ==
    /\ pc = "fullSave"
    /\ inFlight' = inFlight - 1
    /\ \E ok \in BOOLEAN :
          IF ok
          THEN /\ saveEnded' = "saved"
               /\ PrevSnapshot' = saving.snap
               /\ PrevFullSnapshot' = saving.snap
               /\ PrevDeltaSnapshots' = <<>>
               /\ saved' = Record(saved, saving)
               /\ FullPost(ctx, saving.snap, fullSnapshotTimer, deltaSnapshotTimer)
          ELSE /\ saveEnded' = "failed"
               /\ UNCHANGED <<snapVars, watchCh>>
               /\ events' = <<>>
               /\ lastEventRevision' = -1
               /\ ctx' = "none"
               /\ saving' = NoSaving
               /\ Conclude(ctx, "ackFull", Result(NoSnap, "store"),
                           fullSnapshotTimer, deltaSnapshotTimer, 0)
    /\ ret' = NoRet
    /\ UNCHANGED <<callerVars, envVars>>
    /\ NoSecretCheck
    /\ UNCHANGED outsideVars

\* One watch response received in context c (the event loop, or the
\* catch-up): the channel is closed, or the response carries an error, or
\* its events are appended by handleDeltaWatchEvents and a delta snapshot
\* is taken when the buffer reached the memory limit.
HandleWatch(c) ==
    \E kind \in {"events", "closed", "error"} :
       IF kind # "events"
       THEN /\ UNCHANGED <<watchCh, bufVars, snapVars, inFlight, ctx, saving>>
            /\ SecretUnchecked
            /\ Return("watch")
       ELSE \E m \in watchCh..etcdRev :
            LET batch == Revs(watchCh, m)
                evs == events \o batch
                lastEv == LastEventRevisionAfter(lastEventRevision, batch)
            IN  /\ watchCh' = m + 1
                /\ IF MemoryLimitReached(BufLen(evs), cfg.memLimit)
                   THEN TakeDelta(c, evs, lastEv, fullSnapshotTimer,
                                  deltaSnapshotTimer, m + 1)
                   ELSE /\ events' = evs
                        /\ lastEventRevision' = lastEv
                        /\ SecretUnchecked
                        /\ UNCHANGED <<snapVars, inFlight, ctx, saving>>
                        /\ Conclude(c, "ackDelta", NoRes, fullSnapshotTimer,
                                    deltaSnapshotTimer, m + 1)

\* ------------------------------------------------ the Run goroutine: steps
NoNewEventsMut(prev, lastRevision) == FALSE
\* CollectEventsSincePrevSnapshot: if ssr.PrevSnapshot.LastRevision ==
\* lastEtcdRevision, "Skipping initial delta snapshot"
NoNewEvents(prev, lastRevision) == prev.last = lastRevision

Run(startWithFullSnapshot) ==
    /\ pc = "stopped"
    /\ IF startWithFullSnapshot
       THEN /\ pc' = "select"
            /\ fullSnapshotTimer' = "armed"
            /\ deltaSnapshotTimer' = "armed"
            /\ res' = NoRes
            /\ runErr' = "none"
            /\ UNCHANGED <<watchCh, lastEtcdRevision>>
       ELSE IF watchCh = 0
       THEN \E e \in {"none", "etcd"} :
               IF e # "none"
               THEN /\ watchCh' = 0
                    /\ Return(e)
               ELSE /\ watchCh' = PrevSnapshot.last + 1
                    /\ IF NoNewEvents(PrevSnapshot, etcdRev)
                       THEN StartLoop
                       ELSE /\ pc' = "catchup"
                            /\ lastEtcdRevision' = etcdRev
                            /\ res' = NoRes
                            /\ runErr' = "none"
                            /\ UNCHANGED <<fullSnapshotTimer, deltaSnapshotTimer>>
       ELSE /\ UNCHANGED watchCh
            /\ StartLoop
    /\ stopCh' = FALSE
    /\ lossDuringTrigger' = FALSE
    /\ ret' = NoRet
    /\ saveEnded' = "none"
    /\ UNCHANGED <<snapVars, bufVars, inFlight, ctx, saving, callerVars,
                   cfg, etcdRev, initPrev, SsrState>>
    /\ NoSecretCheck
    /\ UNCHANGED outsideVars

\* CollectEventsSincePrevSnapshot: case wr, ok := <-ssr.watchCh
CatchupWatch ==
    /\ pc = "catchup"
    /\ watchCh # 0
    /\ HandleWatch("catchup")
    /\ ret' = NoRet
    /\ saveEnded' = "none"
    /\ UNCHANGED <<callerVars, envVars>>
    /\ UNCHANGED secretModifiedTime
    /\ UNCHANGED outsideVars

\* CollectEventsSincePrevSnapshot: case <-stopCh
CatchupStop ==
    /\ pc = "catchup"
    /\ stopCh
    /\ events' = <<>>
    /\ lastEventRevision' = -1
    /\ Return("none")
    /\ ret' = NoRet
    /\ saveEnded' = "none"
    /\ UNCHANGED <<watchCh, snapVars, inFlight, ctx, saving, callerVars, envVars>>
    /\ NoSecretCheck
    /\ UNCHANGED outsideVars

\* snapshotEventHandler: case isFinal := <-ssr.fullSnapshotReqCh
RecvFullReq(c) ==
    /\ pc = "select"
    /\ cpc[c] = "sendFull"
    /\ cpc' = [cpc EXCEPT ![c] = "waitFull"]
    /\ carg' = [carg EXCEPT ![c] = FALSE]
    /\ TakeFull("trigger", carg[c], fullSnapshotTimer, deltaSnapshotTimer)
    /\ ret' = NoRet
    /\ saveEnded' = "none"
    /\ UNCHANGED <<SsrStateMutex, envVars>>
    /\ UNCHANGED secretModifiedTime
    /\ UNCHANGED outsideVars

\* snapshotEventHandler: ssr.fullSnapshotAckCh <- res, and what follows
AckFull(c) ==
    /\ saveEnded' = "none"
    /\ pc = "ackFull"
    /\ cpc[c] = "waitFull"
    /\ cpc' = [cpc EXCEPT ![c] = "idle"]
    /\ ret' = Returned(res)
    /\ SsrStateMutex' = 0
    /\ IF ExitsOnError(res.err)
       THEN Return(res.err)
       ELSE /\ pc' = "select"
            /\ res' = NoRes
            /\ UNCHANGED <<runErr, fullSnapshotTimer, deltaSnapshotTimer,
                           lastEtcdRevision>>
    /\ UNCHANGED <<watchCh, bufVars, snapVars, inFlight, ctx, saving, carg, envVars>>
    /\ NoSecretCheck
    /\ UNCHANGED outsideVars

\* snapshotEventHandler: case <-ssr.deltaSnapshotReqCh
RecvDeltaReq(c) ==
    /\ pc = "select"
    /\ cpc[c] = "sendDelta"
    /\ cpc' = [cpc EXCEPT ![c] = "waitDelta"]
    /\ TakeDelta("trigger", events, lastEventRevision, fullSnapshotTimer,
                 deltaSnapshotTimer, watchCh)
    /\ ret' = NoRet
    /\ saveEnded' = "none"
    /\ UNCHANGED <<watchCh, carg, SsrStateMutex, envVars>>
    /\ UNCHANGED secretModifiedTime
    /\ UNCHANGED outsideVars

\* snapshotEventHandler: ssr.deltaSnapshotAckCh <- res, and what follows
AckDelta(c) ==
    /\ saveEnded' = "none"
    /\ pc = "ackDelta"
    /\ cpc[c] = "waitDelta"
    /\ cpc' = [cpc EXCEPT ![c] = "idle"]
    /\ ret' = Returned(res)
    /\ SsrStateMutex' = 0
    /\ IF ExitsOnError(res.err)
       THEN Return(res.err)
       ELSE /\ pc' = "select"
            /\ res' = NoRes
            /\ UNCHANGED <<runErr, fullSnapshotTimer, deltaSnapshotTimer,
                           lastEtcdRevision>>
    /\ UNCHANGED <<watchCh, bufVars, snapVars, inFlight, ctx, saving, carg, envVars>>
    /\ NoSecretCheck
    /\ UNCHANGED outsideVars

\* snapshotEventHandler: case <-ssr.fullSnapshotTimer.C
FullTimerFire ==
    /\ pc = "select"
    /\ fullSnapshotTimer = "armed"
    /\ TakeFull("timer", FALSE, "expired", deltaSnapshotTimer)
    /\ ret' = NoRet
    /\ saveEnded' = "none"
    /\ UNCHANGED <<callerVars, envVars>>
    /\ UNCHANGED secretModifiedTime
    /\ UNCHANGED outsideVars

DeltaTimerFireAsync ==
    /\ pc = "select"
    /\ deltaSnapshotTimer = "armed"
    /\ cfg.deltaEnabled
    /\ Len(events) > 0
    /\ deltaSnapshotTimer' = "expired"
    /\ inFlight' = inFlight + 1
    /\ ret' = NoRet
    /\ saveEnded' = "none"
    /\ UNCHANGED <<pc, res, runErr, fullSnapshotTimer, lastEtcdRevision, bufVars,
                   snapVars, ctx, saving, watchCh, callerVars, envVars>>
    /\ NoSecretCheck
    /\ UNCHANGED outsideVars

\* snapshotEventHandler: case <-ssr.deltaSnapshotTimer.C
DeltaTimerFire ==
    /\ pc = "select"
    /\ deltaSnapshotTimer = "armed"
    /\ IF cfg.deltaEnabled
       THEN TakeDelta("timer", events, lastEventRevision, fullSnapshotTimer,
                      "expired", watchCh)
       ELSE /\ deltaSnapshotTimer' = "expired"
            /\ SecretUnchecked
            /\ UNCHANGED <<pc, res, runErr, fullSnapshotTimer, lastEtcdRevision,
                           bufVars, snapVars, inFlight, ctx, saving>>
    /\ ret' = NoRet
    /\ saveEnded' = "none"
    /\ UNCHANGED <<watchCh, callerVars, envVars>>
    /\ UNCHANGED secretModifiedTime
    /\ UNCHANGED outsideVars

\* snapshotEventHandler: case wr, ok := <-ssr.watchCh
WatchResponse ==
    /\ pc = "select"
    /\ watchCh # 0
    /\ HandleWatch("watch")
    /\ ret' = NoRet
    /\ saveEnded' = "none"
    /\ UNCHANGED <<callerVars, envVars>>
    /\ UNCHANGED secretModifiedTime
    /\ UNCHANGED outsideVars

StopRecvKeepsBuffer ==
    /\ pc = "select"
    /\ stopCh
    /\ Return("none")
    /\ ret' = NoRet
    /\ saveEnded' = "none"
    /\ UNCHANGED <<watchCh, bufVars, snapVars, inFlight, ctx, saving, callerVars,
                   envVars>>
    /\ NoSecretCheck
    /\ UNCHANGED outsideVars

\* snapshotEventHandler: case <-stopCh
StopRecv ==
    /\ pc = "select"
    /\ stopCh
    /\ events' = <<>>
    /\ lastEventRevision' = -1
    /\ Return("none")
    /\ ret' = NoRet
    /\ saveEnded' = "none"
    /\ UNCHANGED <<watchCh, snapVars, inFlight, ctx, saving, callerVars, envVars>>
    /\ NoSecretCheck
    /\ UNCHANGED outsideVars

\* stop(), from SetSnapshotterInactive on: the state is set under the mutex,
\* then closeEtcdClient; Run has returned.
StopSetInactive ==
    /\ pc = "stop"
    /\ SsrStateMutex = 0
    /\ SsrState' = "Inactive"
    /\ watchCh' = 0
    /\ pc' = "stopped"
    /\ stopCh' = FALSE
    /\ lossDuringTrigger' = FALSE
    /\ ret' = NoRet
    /\ saveEnded' = "none"
    /\ UNCHANGED <<cfg, etcdRev, initPrev, snapVars, bufVars, inFlight, ctx,
                   saving, res, runErr, fullSnapshotTimer, deltaSnapshotTimer,
                   lastEtcdRevision, callerVars>>
    /\ NoSecretCheck
    /\ UNCHANGED outsideVars

\* ------------------------------------------------------------ the callers
TriggerFullSnapshot(c, isFinal) ==
    /\ saveEnded' = "none"
    /\ cpc[c] = "idle"
    /\ SsrStateMutex = 0
    /\ IF ~IsActive(SsrState)
       THEN /\ cpc' = [cpc EXCEPT ![c] = "idle"]
            /\ ret' = Returned(Result(NoSnap, "notActive"))
            /\ UNCHANGED <<carg, SsrStateMutex>>
       ELSE /\ SsrStateMutex' = c
            /\ cpc' = [cpc EXCEPT ![c] = "sendFull"]
            /\ carg' = [carg EXCEPT ![c] = isFinal]
            /\ ret' = NoRet
    /\ UNCHANGED <<envVars, snapVars, bufVars, watchCh, fullSnapshotTimer,
                   deltaSnapshotTimer, pc, ctx, saving, res, lastEtcdRevision,
                   runErr, inFlight>>
    /\ NoSecretCheck
    /\ UNCHANGED outsideVars

\* The trigger without the lock that serialises the callers.
TriggerDeltaSnapshotNoLock(c) ==
    /\ saveEnded' = "none"
    /\ cpc[c] = "idle"
    /\ IF ~IsActive(SsrState)
       THEN /\ cpc' = [cpc EXCEPT ![c] = "idle"]
            /\ ret' = Returned(Result(NoSnap, "notActive"))
       ELSE IF ~cfg.deltaEnabled
       THEN /\ cpc' = [cpc EXCEPT ![c] = "idle"]
            /\ ret' = Returned(Result(NoSnap, "disabled"))
       ELSE /\ cpc' = [cpc EXCEPT ![c] = "sendDelta"]
            /\ ret' = NoRet
    /\ UNCHANGED <<carg, SsrStateMutex, envVars, snapVars, bufVars, watchCh,
                   fullSnapshotTimer, deltaSnapshotTimer, pc, ctx, saving, res,
                   lastEtcdRevision, runErr, inFlight>>
    /\ NoSecretCheck
    /\ UNCHANGED outsideVars

TriggerDeltaSnapshot(c) ==
    /\ saveEnded' = "none"
    /\ cpc[c] = "idle"
    /\ SsrStateMutex = 0
    /\ IF ~IsActive(SsrState)
       THEN /\ cpc' = [cpc EXCEPT ![c] = "idle"]
            /\ ret' = Returned(Result(NoSnap, "notActive"))
            /\ UNCHANGED SsrStateMutex
       ELSE IF ~cfg.deltaEnabled
       THEN /\ cpc' = [cpc EXCEPT ![c] = "idle"]
            /\ ret' = Returned(Result(NoSnap, "disabled"))
            /\ UNCHANGED SsrStateMutex
       ELSE /\ SsrStateMutex' = c
            /\ cpc' = [cpc EXCEPT ![c] = "sendDelta"]
            /\ ret' = NoRet
    /\ UNCHANGED <<carg, envVars, snapVars, bufVars, watchCh, fullSnapshotTimer,
                   deltaSnapshotTimer, pc, ctx, saving, res, lastEtcdRevision,
                   runErr, inFlight>>
    /\ NoSecretCheck
    /\ UNCHANGED outsideVars

\* -------------------------------------------------------- the environment
SetSnapshotterActive ==
    /\ SsrStateMutex = 0
    /\ SsrState' = "Active"
    /\ ret' = NoRet
    /\ saveEnded' = "none"
    /\ UNCHANGED <<cfg, etcdRev, stopCh, lossDuringTrigger, initPrev, snapVars, bufVars, watchCh,
                   fullSnapshotTimer, deltaSnapshotTimer, pc, ctx, saving, res,
                   lastEtcdRevision, runErr, inFlight, callerVars>>
    /\ NoSecretCheck
    /\ UNCHANGED outsideVars

SetSnapshotterInactiveNoLock ==
    /\ SsrState' = "Inactive"
    /\ ret' = NoRet
    /\ saveEnded' = "none"
    /\ UNCHANGED <<cfg, etcdRev, stopCh, lossDuringTrigger, initPrev, snapVars, bufVars, watchCh,
                   fullSnapshotTimer, deltaSnapshotTimer, pc, ctx, saving, res,
                   lastEtcdRevision, runErr, inFlight, callerVars>>
    /\ NoSecretCheck
    /\ UNCHANGED outsideVars

\* SetSnapshotterInactive: the state is written under the mutex
SetSnapshotterInactive ==
    /\ SsrStateMutex = 0
    /\ SsrState' = "Inactive"
    /\ ret' = NoRet
    /\ saveEnded' = "none"
    /\ UNCHANGED <<cfg, etcdRev, stopCh, lossDuringTrigger, initPrev, snapVars, bufVars, watchCh,
                   fullSnapshotTimer, deltaSnapshotTimer, pc, ctx, saving, res,
                   lastEtcdRevision, runErr, inFlight, callerVars>>
    /\ NoSecretCheck
    /\ UNCHANGED outsideVars

\* The owner of Run fires the stop channel.
StopSignal ==
    /\ pc \notin {"stopped", "stop"}
    /\ ~stopCh
    /\ stopCh' = TRUE
    /\ lossDuringTrigger' = \E c \in Callers : cpc[c] \in {"waitFull", "waitDelta"}
    /\ ret' = NoRet
    /\ saveEnded' = "none"
    /\ UNCHANGED <<cfg, etcdRev, SsrState, initPrev, snapVars, bufVars, watchCh,
                   fullSnapshotTimer, deltaSnapshotTimer, pc, ctx, saving, res,
                   lastEtcdRevision, runErr, inFlight, callerVars>>
    /\ NoSecretCheck
    /\ UNCHANGED outsideVars

\* A mutation of the KV store: the latest revision grows by one.
KVPut ==
    /\ etcdRev < MaxRev
    /\ etcdRev' = etcdRev + 1
    /\ ret' = NoRet
    /\ saveEnded' = "none"
    /\ UNCHANGED <<cfg, stopCh, lossDuringTrigger, SsrState, initPrev, snapVars, bufVars, watchCh,
                   fullSnapshotTimer, deltaSnapshotTimer, pc, ctx, saving, res,
                   lastEtcdRevision, runErr, inFlight, callerVars>>
    /\ NoSecretCheck
    /\ UNCHANGED outsideVars

Next ==
    \/ \E b \in BOOLEAN : Run(b)
    \/ CatchupWatch
    \/ CatchupStop
    \/ \E c \in Callers : RecvFullReq(c)
    \/ \E c \in Callers : AckFull(c)
    \/ \E c \in Callers : RecvDeltaReq(c)
    \/ \E c \in Callers : AckDelta(c)
    \/ FullTimerFire
    \/ DeltaTimerFire
    \/ FullSaveDone
    \/ DeltaSaveDone
    \/ WatchResponse
    \/ StopRecv
    \/ StopSetInactive
    \/ \E c \in Callers, f \in BOOLEAN : TriggerFullSnapshot(c, f)
    \/ \E c \in Callers : TriggerDeltaSnapshot(c)
    \/ SetSnapshotterActive
    \/ SetSnapshotterInactive
    \/ StopSignal
    \/ KVPut

Spec == Init /\ [][Next]_vars

TypeOK ==
    /\ pc \in {"stopped", "catchup", "select", "fullSave", "deltaSave",
               "ackFull", "ackDelta", "stop"}
    /\ etcdRev \in 0..MaxRev
    /\ SsrState \in {"Active", "Inactive"}
    /\ SsrStateMutex \in {0} \cup Callers
    /\ watchCh \in 0..(MaxRev + 1)
    /\ fullSnapshotTimer \in {"nil", "armed", "expired"}
    /\ deltaSnapshotTimer \in {"nil", "armed", "expired"}

\* ------------------------------------------- credential rotation: steps
\* The credentials backing the store are rotated: their modification time
\* moves on.
RotateSecret ==
    /\ secretModifiedTime < MaxSecretTime
    /\ secretModifiedTime' = secretModifiedTime + 1
    /\ SecretUnchecked
    /\ ret' = NoRet
    /\ saveEnded' = "none"
    /\ UNCHANGED <<cfg, etcdRev, stopCh, lossDuringTrigger, SsrState, initPrev,
                   snapVars, bufVars, watchCh, fullSnapshotTimer,
                   deltaSnapshotTimer, pc, ctx, saving, res, lastEtcdRevision,
                   runErr, inFlight, callerVars>>
    /\ UNCHANGED outsideVars

\* A Snapshotter with delta snapshotting over a store whose credentials
\* carry a modification time.
RotationInit ==
    /\ secretModifiedTime = 1
    /\ \E memLimit \in {2, MaxMemLimit} :
          NewSnapshotter([deltaEnabled |-> TRUE, memLimit |-> memLimit,
                          scheduleHasNext |-> TRUE], <<NoSnap, <<>>>>)
    /\ ElectorsParked
    /\ InitializerParked
    /\ StartupParked
    /\ LeaseParked

RotationNext == Next \/ RotateSecret

RotationSpec == RotationInit /\ [][RotationNext]_vars

\* ------------------------------------------------- leader elector: steps
\* The Snapshotter as the electors' specification holds it: constructed,
\* never run.
SnapshotterParked ==
    /\ secretModifiedTime = 0
    /\ NewSnapshotter([deltaEnabled |-> TRUE, memLimit |-> MaxMemLimit,
                       scheduleHasNext |-> TRUE], <<NoSnap, <<>>>>)

Count(seq, x) == Cardinality({i \in 1..Len(seq) : seq[i] = x})

\* le.CheckMemberStatus of member m: (isLeader, isLearner, err); failed when
\* the member cannot be reached or the cluster has no leader.
CheckMemberStatus(m, failed) ==
    [member |-> m, from |-> CurrentState[m],
     isLeader |-> ~failed /\ etcdLeader = m,
     isLearner |-> ~failed /\ m \in learner,
     err |-> failed]

OnProbeRestarts(s, p) ==
    IF p.err
    THEN [state |-> "Unknown",
          invoked |-> (IF s # "Unknown" THEN <<"StopLeaseRenewal">> ELSE <<>>)
                      \o (IF s = "Leader" THEN <<"OnStoppedLeading">> ELSE <<>>)]
    ELSE IF p.isLeader
    THEN [state |-> "Leader", invoked |-> <<"OnStartedLeading">>]
    ELSE [state |-> "Follower",
          invoked |-> IF p.isLearner THEN <<"Promote">> ELSE <<>>]

OnProbeStopsLeaseEachTime(s, p) ==
    IF p.err
    THEN [state |-> "Unknown",
          invoked |-> <<"StopLeaseRenewal">>
                      \o (IF s = "Leader" THEN <<"OnStoppedLeading">> ELSE <<>>)]
    ELSE IF p.isLeader
    THEN [state |-> "Leader",
          invoked |-> IF s = "Leader" THEN <<>> ELSE <<"OnStartedLeading">>]
    ELSE [state |-> "Follower",
          invoked |-> IF s = "Leader" THEN <<"OnStoppedLeading">>
                      ELSE IF p.isLearner THEN <<"Promote">> ELSE <<>>]

OnProbePromotesFollowers(s, p) ==
    IF p.err
    THEN [state |-> "Unknown",
          invoked |-> (IF s # "Unknown" THEN <<"StopLeaseRenewal">> ELSE <<>>)
                      \o (IF s = "Leader" THEN <<"OnStoppedLeading">> ELSE <<>>)]
    ELSE IF p.isLeader
    THEN [state |-> "Leader",
          invoked |-> IF s = "Leader" THEN <<>> ELSE <<"OnStartedLeading">>]
    ELSE [state |-> "Follower",
          invoked |-> IF s = "Leader" THEN <<"OnStoppedLeading">>
                      ELSE <<"Promote">>]

\* One pass of the elector's loop in state s on the probe result p: the new
\* state and the callbacks invoked, in order.
\*   any -> Unknown on error (the lease renewal is stopped on the transition,
\*   the Snapshotter when it was leading); Follower/Unknown -> Leader when
\*   isLeader; Leader -> Follower when not; Follower/Unknown -> Follower, and
\*   Promote when isLearner. Leaving Unknown resumes the lease renewal.
OnProbe(s, p) ==
    IF p.err
    THEN [state |-> "Unknown",
          invoked |-> (IF s # "Unknown" THEN <<"StopLeaseRenewal">> ELSE <<>>)
                      \o (IF s = "Leader" THEN <<"OnStoppedLeading">> ELSE <<>>)]
    ELSE IF p.isLeader
    THEN [state |-> "Leader",
          invoked |-> IF s = "Leader" THEN <<>>
                      ELSE (IF s = "Unknown" THEN <<"StartLeaseRenewal">> ELSE <<>>)
                           \o <<"OnStartedLeading">>]
    ELSE IF s = "Leader"
    THEN [state |-> "Follower", invoked |-> <<"OnStoppedLeading">>]
    ELSE [state |-> "Follower",
          invoked |-> (IF s = "Unknown" THEN <<"StartLeaseRenewal">> ELSE <<>>)
                      \o (IF p.isLearner THEN <<"Promote">> ELSE <<>>)]

\* A switch after the callbacks cbs: on after a call of start, off after a
\* call of stop, else as it was.
Switched(was, cbs, start, stop) ==
    IF Count(cbs, stop) > 0 THEN FALSE
    ELSE IF Count(cbs, start) > 0 THEN TRUE
    ELSE was

\* le.Run: the re-election period of member m's elector elapses; it probes
\* its member and acts on the result. A Promote may or may not succeed.
Probe(m) ==
    /\ \E unreachable \in BOOLEAN :
          LET p == CheckMemberStatus(m, unreachable \/ etcdLeader = 0)
              r == OnProbe(CurrentState[m], p)
          IN  /\ lastProbe' = p
              /\ invoked' = r.invoked
              /\ CurrentState' = [CurrentState EXCEPT ![m] = r.state]
              /\ snapshotterStarted' =
                    [snapshotterStarted EXCEPT ![m] =
                        Switched(@, r.invoked, "OnStartedLeading", "OnStoppedLeading")]
              /\ leaseRenewal' =
                    [leaseRenewal EXCEPT ![m] =
                        Switched(@, r.invoked, "StartLeaseRenewal", "StopLeaseRenewal")]
              /\ \E promoted \in BOOLEAN :
                    learner' = IF Count(r.invoked, "Promote") > 0 /\ promoted
                               THEN learner \ {m} ELSE learner
    /\ UNCHANGED <<etcdLeader, snapshotterVars, initializerVars>>

\* The KV cluster elects the voting member l its leader, or loses its
\* leader (l = 0).
ElectLeader(l) ==
    /\ l # etcdLeader
    /\ l \notin learner
    /\ etcdLeader' = l
    /\ lastProbe' = NoProbe
    /\ invoked' = <<>>
    /\ UNCHANGED <<CurrentState, learner, snapshotterStarted, leaseRenewal,
                   snapshotterVars, initializerVars>>

ElectorInit ==
    /\ SnapshotterParked
    /\ InitializerParked
    /\ StartupParked
    /\ LeaseParked
    /\ NewLeaderElector
    /\ learner \in SUBSET Members
    /\ etcdLeader \in (0..NumMembers) \ learner

ElectorNext ==
    \/ \E m \in Members : Probe(m)
    \/ \E l \in 0..NumMembers : ElectLeader(l)

ElectorSpec == ElectorInit /\ [][ElectorNext]_vars

\* ---------------------------------------------------- initializer: steps
AbortsOnAllButUnknown(status) ==
    status \in {"WrongVolumeMounted", "FailToOpenBoltDBError",
                "FailBelowRevisionConsistencyError"}

\* Initialize: the statuses for which it returns an error after validation
AbortsInitialization(status) ==
    status \in {"WrongVolumeMounted", "FailToOpenBoltDBError",
                "DataDirectoryStatusUnknown", "FailBelowRevisionConsistencyError"}

RestoresInMultiNodeAlsoValid(status, size, heartbeat) ==
    \/ status = "DataDirStatusInvalidInMultiNode"
    \/ size > 1 /\ status = "DataDirectoryCorrupt"
    \/ size > 1 /\ heartbeat

\* Initialize: the condition under which restoreInMultiNode is called
RestoresInMultiNode(status, size, heartbeat) ==
    /\ status # "DataDirectoryValid"
    /\ \/ status = "DataDirStatusInvalidInMultiNode"
       \/ size > 1 /\ status = "DataDirectoryCorrupt"
       \/ size > 1 /\ heartbeat

ChecksScaleUpAlways(multiNode, heartbeat) == multiNode

\* Initialize: the scale-up check is made in multi-node mode when no member
\* heartbeat is present
ChecksScaleUp(multiNode, heartbeat) == multiNode /\ ~heartbeat

RestoreTargetDataDir == "dataDir"

\* restoreCorruptData: the restorer works on dataDir.part
RestoreTarget == "dataDir.part"

\* Initialize returns r (or the process ends: "fatal", "crashed").
End(r) == ipc' = "done" /\ iret' = r

\* removeDir(dir) failed: os.RemoveAll may have removed some of it.
AfterFailedRemove(dir) == IF dir = "absent" THEN {"absent"} ELSE {dir, "partial"}

\* Initialize up to the validation: the scale-up check.
InitializeBegin ==
    /\ ipc = "start"
    /\ iret = "running"
    /\ IF ChecksScaleUp(given.multiNode, given.heartbeat)
       THEN /\ ilog' = ilog \cup {"scaleUpChecked"}
            /\ ipc' = (IF given.scaleUp = "yes" THEN "addLearner" ELSE "validate")
       ELSE /\ ilog' = ilog
            /\ ipc' = "validate"
    /\ UNCHANGED <<given, iret, dataDir, partDir, membership, attempts,
                   snapshotterVars, electorVars>>

\* member.AddLearnerWithRetry: one attempt of at most addLearnerAttempts;
\* Initialize returns nil once the learner is added, and the process exits
\* when the attempts are used up.
AddLearnerWithRetry ==
    /\ ipc = "addLearner"
    /\ iret = "running"
    /\ attempts < addLearnerAttempts
    /\ attempts' = attempts + 1
    /\ \E ok \in BOOLEAN :
          IF ok
          THEN /\ membership' = "learner"
               /\ ilog' = ilog \cup {"addedLearner"}
               /\ End("nil")
          ELSE /\ UNCHANGED <<membership, ilog>>
               /\ IF attempts + 1 = addLearnerAttempts
                  THEN End("fatal")
                  ELSE UNCHANGED <<ipc, iret>>
    /\ UNCHANGED <<given, dataDir, partDir, snapshotterVars, electorVars>>

\* Initialize: Validate and what is decided on its status.
Validate ==
    /\ ipc = "validate"
    /\ iret = "running"
    /\ ilog' = ilog \cup {"validated"}
    /\ IF AbortsInitialization(given.status)
       THEN End("error")
       ELSE /\ iret' = iret
            /\ ipc' = (IF RestoresInMultiNode(given.status,
                                              given.OriginalClusterSize,
                                              given.heartbeat)
                       THEN "removeMember"
                       ELSE IF given.status # "DataDirectoryValid"
                       THEN "restoreCorruptData"
                       ELSE "tempDir")
    /\ UNCHANGED <<given, dataDir, partDir, membership, attempts, snapshotterVars,
                   electorVars>>

\* restoreInMultiNode: RemoveMember, with retries
RemoveMember ==
    /\ ipc = "removeMember"
    /\ iret = "running"
    /\ \E ok \in BOOLEAN :
          IF ok
          THEN /\ membership' = "none"
               /\ ilog' = ilog \cup {"removedMember"}
               /\ ipc' = "wipe"
               /\ iret' = iret
          ELSE /\ UNCHANGED <<membership, ilog>>
               /\ End("error")
    /\ UNCHANGED <<given, dataDir, partDir, attempts, snapshotterVars, electorVars>>

\* restoreInMultiNode: removeDir of the data directory
WipeDataDir ==
    /\ ipc = "wipe"
    /\ iret = "running"
    /\ \E ok \in BOOLEAN :
          IF ok
          THEN /\ dataDir' = "absent"
               /\ ilog' = ilog \cup {"wipedDataDir"}
               /\ ipc' = "rejoin"
               /\ iret' = iret
          ELSE /\ dataDir' \in AfterFailedRemove(dataDir)
               /\ ilog' = ilog \cup {"fsFailed"}
               /\ End("error")
    /\ UNCHANGED <<given, partDir, membership, attempts, snapshotterVars, electorVars>>

\* What os.Stat can find at the data directory in a retry: the directory
\* as removeDir left it, or one created again since (by the KV process).
SeenAtStat(dir) == {dir, "partial"}

CallsAddMemberAlways(seen, removed) == TRUE
\* restoreInMultiNode, the retried function: m.AddMemberAsLearner is reached
\* when the directory does not exist or os.RemoveAll removed it
CallsAddMember(seen, removed) == seen = "absent" \/ removed

\* restoreInMultiNode: one call of the retried function: the data directory
\* is removed again should it exist, then AddMemberAsLearner; after a
\* failed call retry.OnError calls it again or has used up its steps.
AddMemberAsLearner ==
    /\ ipc = "rejoin"
    /\ iret = "running"
    /\ \E seen \in SeenAtStat(dataDir), removed \in BOOLEAN, ok \in BOOLEAN,
          again \in BOOLEAN :
          LET left == IF seen = "absent" \/ removed THEN "absent" ELSE seen
              called == CallsAddMember(seen, removed)
              note == IF ~called THEN {"fsFailed"}
                      ELSE IF left = "absent" THEN {"addMemberWithoutDataDir"}
                      ELSE {"addMemberWithDataDir"}
          IN  /\ dataDir' = left
              /\ IF called /\ ok
                 THEN /\ membership' = "learner"
                      /\ ilog' = ilog \cup note \cup {"addedLearner"}
                      /\ ipc' = "tempDir"
                      /\ iret' = iret
                 ELSE /\ membership' = membership
                      /\ ilog' = ilog \cup note
                      /\ IF again
                         THEN UNCHANGED <<ipc, iret>>
                         ELSE End("error")
    /\ UNCHANGED <<given, partDir, attempts, snapshotterVars, electorVars>>

\* restoreWithEmptySnapstore: nothing when the data directory does not
\* exist, else it is removed.
RestoreWithEmptySnapstore ==
    IF dataDir = "absent"
    THEN /\ ipc' = "tempDir"
         /\ UNCHANGED <<iret, dataDir, ilog>>
    ELSE \E ok \in BOOLEAN :
         IF ok
         THEN /\ dataDir' = "absent"
              /\ ilog' = ilog \cup {"wipedDataDir"}
              /\ ipc' = "tempDir"
              /\ iret' = iret
         ELSE /\ dataDir' \in AfterFailedRemove(dataDir)
              /\ ilog' = ilog \cup {"fsFailed"}
              /\ End("error")

\* restoreCorruptData up to the call of the restorer.
RestoreCorruptData ==
    /\ ipc = "restoreCorruptData"
    /\ iret = "running"
    /\ IF given.store \in {"nil", "noProvider", "empty"}
       THEN RestoreWithEmptySnapstore /\ UNCHANGED partDir
       ELSE IF given.store = "unavailable"
       THEN End("error") /\ UNCHANGED <<dataDir, partDir, ilog>>
       ELSE \E ok \in BOOLEAN :
            IF ok
            THEN /\ partDir' = "absent"
                 /\ ipc' = "restore"
                 /\ UNCHANGED <<iret, dataDir, ilog>>
            ELSE /\ partDir' \in AfterFailedRemove(partDir)
                 /\ ilog' = ilog \cup {"fsFailed"}
                 /\ End("error")
                 /\ UNCHANGED dataDir
    /\ UNCHANGED <<given, membership, attempts, snapshotterVars, electorVars>>

\* restoreCorruptData: NewRestorer and RestoreAndStopEtcd on the snapshot
\* chain, into the directory RestoreTarget.
Restore ==
    /\ ipc = "restore"
    /\ iret = "running"
    /\ \E ok \in BOOLEAN :
          /\ IF ok
             THEN /\ ilog' = ilog \cup {"restored"}
                  /\ ipc' = "swapRemove"
                  /\ iret' = iret
             ELSE /\ ilog' = ilog \cup {"restoreFailed"}
                  /\ End("error")
          /\ \E left \in (IF ok THEN {"restored"} ELSE {"absent", "partial"}) :
                IF RestoreTarget = "dataDir.part"
                THEN partDir' = left /\ dataDir' = dataDir
                ELSE dataDir' = left /\ partDir' = partDir
    /\ UNCHANGED <<given, membership, attempts, snapshotterVars, electorVars>>

\* removeContents: removeDir of the data directory
SwapRemove ==
    /\ ipc = "swapRemove"
    /\ iret = "running"
    /\ \E ok \in BOOLEAN :
          IF ok
          THEN /\ dataDir' = "absent"
               /\ ipc' = "swapRename"
               /\ UNCHANGED <<iret, ilog>>
          ELSE /\ dataDir' \in AfterFailedRemove(dataDir)
               /\ ilog' = ilog \cup {"fsFailed"}
               /\ End("error")
    /\ UNCHANGED <<given, partDir, membership, attempts, snapshotterVars, electorVars>>

\* removeContents: os.Rename of dataDir.part to the data directory
SwapRename ==
    /\ ipc = "swapRename"
    /\ iret = "running"
    /\ \E ok \in BOOLEAN :
          IF ok /\ partDir # "absent"
          THEN /\ dataDir' = partDir
               /\ partDir' = "absent"
               /\ ipc' = "tempDir"
               /\ UNCHANGED <<iret, ilog>>
          ELSE /\ ilog' = ilog \cup {"fsFailed"}
               /\ End("error")
               /\ UNCHANGED <<dataDir, partDir>>
    /\ UNCHANGED <<given, membership, attempts, snapshotterVars, electorVars>>

\* Initialize: the snapshot temp directory is removed and made again, unless
\* no snap store is configured.
CleanTempDir ==
    /\ ipc = "tempDir"
    /\ iret = "running"
    /\ IF given.store = "nil"
       THEN End("nil") /\ ilog' = ilog
       ELSE \E ok \in BOOLEAN :
            IF ok
            THEN End("nil") /\ ilog' = ilog
            ELSE End("error") /\ ilog' = ilog \cup {"fsFailed"}
    /\ UNCHANGED <<given, dataDir, partDir, membership, attempts, snapshotterVars,
                   electorVars>>

\* The process is killed in the middle of Initialize.
Crash ==
    /\ ipc \notin {"start", "done"}
    /\ iret = "running"
    /\ End("crashed")
    /\ UNCHANGED <<given, dataDir, partDir, membership, attempts, ilog,
                   snapshotterVars, electorVars>>

\* What a call of Initialize can meet: the heartbeat and the scale-up
\* (what IsClusterScaledUp answers when asked) only matter in multi-node
\* mode, a directory that does not exist has the status of one.
Inputs ==
    { i \in [multiNode : BOOLEAN, heartbeat : BOOLEAN,
             scaleUp : {"yes", "no", "err"}, OriginalClusterSize : {1, 3},
             status : Statuses, store : Stores,
             dataDir0 : {"previous", "absent"},
             partDir0 : {"absent", "partial"}] :
        /\ ~i.multiNode => (~i.heartbeat /\ i.scaleUp = "no")
        /\ (i.status = "DataDirectoryNotExist") <=> (i.dataDir0 = "absent") }

InitializerInit ==
    /\ SnapshotterParked
    /\ ElectorsParked
    /\ StartupParked
    /\ LeaseParked
    /\ \E i \in Inputs : NewInitializer(i)

InitializerNext ==
    \/ InitializeBegin
    \/ AddLearnerWithRetry
    \/ Validate
    \/ RemoveMember
    \/ WipeDataDir
    \/ AddMemberAsLearner
    \/ RestoreCorruptData
    \/ Restore
    \/ SwapRemove
    \/ SwapRename
    \/ CleanTempDir
    \/ Crash

InitializerSpec == InitializerInit /\ [][InitializerNext]_vars

\* ------------------------------------------- the full-snapshot time window
DigitChars == <<"0", "1", "2", "3", "4", "5", "6", "7", "8", "9">>

IsDigit(ch) == \E d \in 1..10 : DigitChars[d] = ch

DigitValue(ch) == (CHOOSE d \in 1..10 : DigitChars[d] = ch) - 1

\* The decimal text of n, as the schedule carries a number.
RECURSIVE Digits(_)
Digits(n) ==
    IF n < 10 THEN <<DigitChars[n + 1]>>
    ELSE Append(Digits(n \div 10), DigitChars[(n % 10) + 1])

\* strings.Contains(s, ch) and strings.Index(s, ch) (0-based, -1 if absent)
Contains(s, ch) == \E i \in 1..Len(s) : s[i] = ch

Index(s, ch) ==
    IF Contains(s, ch)
    THEN (CHOOSE i \in 1..Len(s) : s[i] = ch /\ \A j \in 1..(i - 1) : s[j] # ch) - 1
    ELSE -1

RECURSIVE DecimalValue(_)
DecimalValue(s) ==
    IF Len(s) = 0 THEN 0
    ELSE 10 * DecimalValue(SubSeq(s, 1, Len(s) - 1)) + DigitValue(s[Len(s)])

\* strconv.ParseFloat on the texts a schedule field can end with: a run of
\* digits is its number, anything else (the empty text too) is an error.
ParseFloat(s) ==
    IF Len(s) > 0 /\ \A i \in 1..Len(s) : IsDigit(s[i])
    THEN [err |-> FALSE, value |-> DecimalValue(s)]
    ELSE [err |-> TRUE, value |-> 0]

GetFullSnapshotMaxTimeWindowHourFirst(schedule) ==
    IF Len(schedule) < 5 THEN defaultFullSnapMaxTimeWindow
    ELSE LET h == schedule[hour + 1]
             parsed == ParseFloat(SubSeq(h, Index(h, "/") + 2, Len(h)))
         IN  IF Contains(h, "/") /\ ~parsed.err THEN parsed.value
             ELSE IF schedule[dayOfWeek + 1] # <<"*">>
             THEN defaultFullSnapMaxTimeWindow * 7
             ELSE defaultFullSnapMaxTimeWindow

\* GetFullSnapshotMaxTimeWindow on the fields of the schedule
\* (strings.Fields of the expression).
GetFullSnapshotMaxTimeWindow(schedule) ==
    IF Len(schedule) < 5 THEN defaultFullSnapMaxTimeWindow
    ELSE IF schedule[dayOfWeek + 1] # <<"*">>
    THEN defaultFullSnapMaxTimeWindow * 7
    ELSE LET h == schedule[hour + 1]
             parsed == ParseFloat(SubSeq(h, Index(h, "/") + 2, Len(h)))
         IN  IF /\ schedule[dayOfMonth + 1] = <<"*">>
                /\ schedule[dayOfWeek + 1] = <<"*">>
                /\ Contains(h, "/")
                /\ ~parsed.err
             THEN parsed.value
             ELSE defaultFullSnapMaxTimeWindow

\* The steps the hours fields carry, and what they step over.
StepValues == {2, 6, 12}
StepBases == {<<"*">>, <<"1", "-", "9">>}

\* base/n: an hours field carrying the step n.
Step(base, n) == base \o <<"/">> \o Digits(n)

\* Hours fields: without a step, with a step, and with a '/' that is followed
\* by no number (a letter, nothing, a list).
HourFields ==
    {<<"*">>, <<"0">>, <<"*", "/", "x">>, <<"*", "/">>,
     <<"*", "/", "6", ",", "2", "3">>}
    \cup {Step(b, n) : b \in StepBases, n \in StepValues}

\* Schedules of five fields.
FiveFields ==
    { <<mi, h, dom, <<"*">>, dow>> :
         mi \in {<<"0">>, <<"*">>}, h \in HourFields,
         dom \in {<<"*">>, <<"1">>},
         dow \in {<<"*">>, <<"1">>, <<"1", "-", "5">>} }

\* The schedules GetFullSnapshotMaxTimeWindow is given: of five fields, and
\* of fewer.
Schedules == { SubSeq(f, 1, k) : f \in FiveFields, k \in 0..5 }

CallGetFullSnapshotMaxTimeWindow ==
    /\ timeWindow = -1
    /\ timeWindow' = GetFullSnapshotMaxTimeWindow(fullSnapScheduleSpec)
    /\ UNCHANGED leaseVars
    /\ UNCHANGED <<fullSnapScheduleSpec, startup, required, ssrVars, electorVars,
                   initializerVars>>

TimeWindowInit ==
    /\ LeaseParked
    /\ SnapshotterParked
    /\ ElectorsParked
    /\ InitializerParked
    /\ fullSnapScheduleSpec \in Schedules
    /\ timeWindow = -1
    /\ startup = [PrevFullSnapshot |-> NoPrevFull,
                  PrevFullSnapshotSucceeded |-> TRUE, now |-> 0,
                  timeWindow |-> defaultFullSnapMaxTimeWindow]
    /\ required = "notCalled"

TimeWindowNext == CallGetFullSnapshotMaxTimeWindow

TimeWindowSpec == TimeWindowInit /\ [][TimeWindowNext]_vars

\* ------------------------------------------ full snapshot required at startup
\* ssr.schedule.Next(now) for a schedule whose slots are timeWindow hours
\* apart, at the multiples of timeWindow: the first slot after now.
ScheduleNext(now, window) == ((now \div window) + 1) * window

\* miscellaneous.GetPrevScheduledSnapTime: the slot before nextSnapSchedule.
GetPrevScheduledSnapTime(nextSnapSchedule, window) == nextSnapSchedule - window

\* time.Since(ssr.PrevFullSnapshot.CreatedOn).Hours()
HoursSince(st) == st.now - st.PrevFullSnapshot.CreatedOn

WasScheduledFullSnapshotMissed(st) ==
    GetPrevScheduledSnapTime(ScheduleNext(st.now, st.timeWindow), st.timeWindow)
        # st.PrevFullSnapshot.CreatedOn

IsNextFullSnapshotBeyondTimeWindow(st) ==
    (ScheduleNext(st.now, st.timeWindow) - st.now) + HoursSince(st) > st.timeWindow

IsFullSnapshotRequiredAtStartupMut(st) ==
    IF \/ ~st.PrevFullSnapshot.exists
       \/ st.PrevFullSnapshot.IsFinal
       \/ HoursSince(st) > st.timeWindow
    THEN TRUE
    ELSE IF ~WasScheduledFullSnapshotMissed(st) THEN FALSE
    ELSE IsNextFullSnapshotBeyondTimeWindow(st)

\* IsFullSnapshotRequiredAtStartup(timeWindow), on the state st it meets
IsFullSnapshotRequiredAtStartup(st) ==
    IF \/ ~st.PrevFullSnapshot.exists
       \/ st.PrevFullSnapshot.IsFinal
       \/ HoursSince(st) > st.timeWindow
       \/ ~st.PrevFullSnapshotSucceeded
    THEN TRUE
    ELSE IF ~WasScheduledFullSnapshotMissed(st) THEN FALSE
    ELSE IsNextFullSnapshotBeyondTimeWindow(st)

\* What IsFullSnapshotRequiredAtStartup can meet: no previous full snapshot,
\* or one created at some hour up to now; time windows of 2 and 3 hours.
StartupInputs ==
    { st \in [PrevFullSnapshot : {NoPrevFull} \cup
                                 [exists : {TRUE}, CreatedOn : 0..MaxHour,
                                  IsFinal : BOOLEAN],
              PrevFullSnapshotSucceeded : BOOLEAN,
              now : 0..MaxHour,
              timeWindow : {2, 3}] :
         st.PrevFullSnapshot.CreatedOn <= st.now }

CallIsFullSnapshotRequiredAtStartup ==
    /\ required = "notCalled"
    /\ required' = (IF IsFullSnapshotRequiredAtStartup(startup)
                    THEN "true" ELSE "false")
    /\ UNCHANGED leaseVars
    /\ UNCHANGED <<fullSnapScheduleSpec, timeWindow, startup, ssrVars,
                   electorVars, initializerVars>>

StartupInit ==
    /\ LeaseParked
    /\ SnapshotterParked
    /\ ElectorsParked
    /\ InitializerParked
    /\ fullSnapScheduleSpec = <<>>
    /\ timeWindow = -1
    /\ startup \in StartupInputs
    /\ required = "notCalled"

StartupNext == CallIsFullSnapshotRequiredAtStartup

StartupSpec == StartupInit /\ [][StartupNext]_vars

\* ------------------------------- Run, stop() and the lease-renewal goroutine
\* Run is called: the stop channel of the lease renewal is made and stop()
\* deferred; with startWithFullSnapshot the full-snapshot timer is set to
\* fire at once, else the events since the previous snapshot are collected
\* when there is no watch yet.
RunCalled ==
    /\ rpc = "notCalled"
    /\ IF runArgs.startWithFullSnapshot
       THEN /\ rpc' = "startLease"
            /\ timers' = [timers EXCEPT !.full = "set"]
       ELSE /\ rpc' = (IF runArgs.watchNil THEN "collect" ELSE "resetTimer")
            /\ timers' = timers
    /\ UNCHANGED <<SnapshotLeaseRenewalEnabled, runArgs, rerr, renewer>>
    /\ UNCHANGED <<ssrVars, electorVars, initializerVars, startupVars>>

\* Run: CollectEventsSincePrevSnapshot returns: stopped, or an error, or
\* nil; a delta snapshot it took at the memory limit has made the delta
\* timer.
CollectEventsSincePrevSnapshot ==
    /\ rpc = "collect"
    /\ \E o \in {"ok", "stopped", "etcd", "watch", "store"},
          delta \in {"nil", "set"} :
          /\ timers' = [timers EXCEPT !.delta = delta]
          /\ rpc' = (IF o = "ok" THEN "resetTimer" ELSE "stop")
          /\ rerr' = (IF o \in {"ok", "stopped"} THEN "none" ELSE o)
    /\ UNCHANGED <<SnapshotLeaseRenewalEnabled, runArgs, renewer>>
    /\ UNCHANGED <<ssrVars, electorVars, initializerVars, startupVars>>

\* Run: resetFullSnapshotTimer, which fails when the schedule has no slot
\* left
ResetFullSnapshotTimer ==
    /\ rpc = "resetTimer"
    /\ \E ok \in BOOLEAN :
          IF ok
          THEN /\ timers' = [timers EXCEPT !.full = "set"]
               /\ rpc' = "startLease"
               /\ rerr' = rerr
          ELSE /\ timers' = timers
               /\ rpc' = "stop"
               /\ rerr' = "schedule"
    /\ UNCHANGED <<SnapshotLeaseRenewalEnabled, runArgs, renewer>>
    /\ UNCHANGED <<ssrVars, electorVars, initializerVars, startupVars>>

\* Run: go ssr.RenewFullSnapshotLeasePeriodically(fullSnapshotLeaseStopCh,
\* ...) when lease renewal is enabled, then the delta timer
StartLeaseRenewer ==
    /\ rpc = "startLease"
    /\ renewer' = (IF SnapshotLeaseRenewalEnabled THEN "running" ELSE renewer)
    /\ timers' = [timers EXCEPT !.delta = "set"]
    /\ rpc' = "handler"
    /\ UNCHANGED <<SnapshotLeaseRenewalEnabled, runArgs, rerr>>
    /\ UNCHANGED <<ssrVars, electorVars, initializerVars, startupVars>>

\* Run: snapshotEventHandler returns, nil on the stop channel or an error.
SnapshotEventHandler ==
    /\ rpc = "handler"
    /\ \E e \in {"none", "etcd", "watch", "store", "snapstore", "schedule"} :
          rerr' = e
    /\ rpc' = "stop"
    /\ UNCHANGED <<SnapshotLeaseRenewalEnabled, runArgs, timers, renewer>>
    /\ UNCHANGED <<ssrVars, electorVars, initializerVars, startupVars>>

\* stop(): both timers are stopped and set to nil.
StopTimers ==
    /\ rpc = "stop"
    /\ timers' = NoTimers
    /\ rpc' = "stopLease"
    /\ UNCHANGED <<SnapshotLeaseRenewalEnabled, runArgs, rerr, renewer>>
    /\ UNCHANGED <<ssrVars, electorVars, initializerVars, startupVars>>

\* stop(): if ssr.HealthConfig.SnapshotLeaseRenewalEnabled
\* { fullSnapshotLeaseStopCh <- emptyStruct }
SendsStop(enabled, state) == enabled

\* stop(): the send on the unbuffered fullSnapshotLeaseStopCh, which
\* completes when the renewal goroutine, the only receiver the channel is
\* handed to, takes it.
StopLeaseRenewer ==
    /\ rpc = "stopLease"
    /\ IF SendsStop(SnapshotLeaseRenewalEnabled, renewer)
       THEN /\ renewer = "running"
            /\ renewer' = "stopped"
       ELSE renewer' = renewer
    /\ rpc' = "setInactive"
    /\ UNCHANGED <<SnapshotLeaseRenewalEnabled, runArgs, rerr, timers>>
    /\ UNCHANGED <<ssrVars, electorVars, initializerVars, startupVars>>

\* stop(): SetSnapshotterInactive and closeEtcdClient; Run returns.
StopReturns ==
    /\ rpc = "setInactive"
    /\ rpc' = "returned"
    /\ UNCHANGED <<SnapshotLeaseRenewalEnabled, runArgs, rerr, timers, renewer>>
    /\ UNCHANGED <<ssrVars, electorVars, initializerVars, startupVars>>

LeaseInit ==
    /\ SnapshotterParked
    /\ ElectorsParked
    /\ InitializerParked
    /\ StartupParked
    /\ SnapshotLeaseRenewalEnabled \in BOOLEAN
    /\ runArgs \in [startWithFullSnapshot : BOOLEAN, watchNil : BOOLEAN]
    /\ rpc = "notCalled"
    /\ rerr = "none"
    /\ timers = NoTimers
    /\ renewer = "none"

LeaseNext ==
    \/ RunCalled
    \/ CollectEventsSincePrevSnapshot
    \/ ResetFullSnapshotTimer
    \/ StartLeaseRenewer
    \/ SnapshotEventHandler
    \/ StopTimers
    \/ StopLeaseRenewer
    \/ StopReturns

LeaseSpec == LeaseInit /\ [][LeaseNext]_vars

\* ------------------------------------- a watch response without events
\* CollectEventsSincePrevSnapshot receives a watch response that carries no
\* events and no error: handleDeltaWatchEvents appends nothing and returns
\* nil, and wr.Events[len(wr.Events)-1] then indexes an empty slice: the
\* goroutine panics.
CatchupEmptyResponse ==
    /\ pc = "catchup"
    /\ watchCh # 0
    /\ pc' = "panicked"
    /\ ret' = NoRet
    /\ saveEnded' = "none"
    /\ UNCHANGED <<cfg, etcdRev, stopCh, lossDuringTrigger, SsrState, initPrev,
                   snapVars, bufVars, watchCh, fullSnapshotTimer,
                   deltaSnapshotTimer, ctx, saving, res, lastEtcdRevision,
                   runErr, inFlight, callerVars>>
    /\ NoSecretCheck
    /\ UNCHANGED outsideVars

\* A Snapshotter with delta snapshotting on an empty store.
EmptyResponseInit ==
    /\ secretModifiedTime = 0
    /\ \E memLimit \in {2, MaxMemLimit} :
          NewSnapshotter([deltaEnabled |-> TRUE, memLimit |-> memLimit,
                          scheduleHasNext |-> TRUE], <<NoSnap, <<>>>>)
    /\ ElectorsParked
    /\ InitializerParked
    /\ StartupParked
    /\ LeaseParked

EmptyResponseNext == Next \/ CatchupEmptyResponse

EmptyResponseSpec == EmptyResponseInit /\ [][EmptyResponseNext]_vars

\* ------------------------------------------------------------------ claims
\* A trigger call is entered in this step: it either passes its checks and
\* goes on to the request channel, or returns at once.
CallIssued ==
    \/ \E c \in Callers : cpc[c] = "idle" /\ cpc'[c] # "idle"
    \/ ret'.returned /\ cpc' = cpc

\* An externally triggered snapshot is in progress or requested.
InProgress == \E c \in Callers : cpc[c] # "idle"

\* A Save that was in flight ends in this step without a snapshot saved.
SaveFailed == saveEnded' = "failed"

\* C1: every Delta saved starts at LastRevision + 1 of the snapshot recorded
\* immediately before it (the PrevSnapshot of construction for the first).
C1_ChainContiguity ==
    /\ (Len(saved) = 1 /\ saved[1].snap.kind = "Delta")
          => saved[1].snap.start = initPrev.last + 1
    /\ (Len(saved) = 2 /\ saved[2].snap.kind = "Delta")
          => saved[2].snap.start = saved[1].snap.last + 1

C1_Witness ==
    /\ Len(saved) = 2
    /\ saved[1].snap.kind = "Delta"
    /\ saved[2].snap.kind = "Delta"

\* C2: at no time are two Save calls of the Snapshotter in flight.
C2_AtMostOneInFlight == inFlight <= 1

\* A timer-started Save is in flight while a caller's request is pending.
C2_Witness ==
    /\ inFlight = 1
    /\ ctx = "timer"
    /\ \E c \in Callers : cpc[c] \in {"sendFull", "sendDelta"}

\* C3, on the saved snapshots: a Delta has LastRevision >= StartRevision and
\* its LastRevision is the ModRevision of the last event of the buffer it
\* flushed.
C3_SavedDelta ==
    \A i \in 1..Len(saved) :
       saved[i].snap.kind = "Delta" =>
          /\ Len(saved[i].content) > 0
          /\ saved[i].snap.last >= saved[i].snap.start
          /\ saved[i].snap.last = Last(saved[i].content)

\* C3, on the buffer: the events of a watch response are appended at the end
\* of the buffer, in the order delivered.
C3_Appended ==
    (/\ pc \in {"select", "catchup"}
     /\ watchCh # 0
     /\ watchCh' > watchCh
     /\ events' # <<>>)
       => events' = events \o Revs(watchCh, watchCh' - 1)

\* C3: revision monotonicity of the buffer and of every Delta saved.
C3_RevisionMonotonicity == []C3_SavedDelta /\ [][C3_Appended]_vars

\* A delta of two events delivered in one response has been saved.
C3_Witness ==
    /\ Len(saved) >= 1
    /\ Last(saved).snap.kind = "Delta"
    /\ Len(Last(saved).content) >= 2

C4_FailureStep ==
    /\ SaveFailed =>
          IF ctx = "trigger"
          THEN pc' \in {"ackFull", "ackDelta"} /\ res'.err # "none"
          ELSE pc' = "stop" /\ runErr' # "none"
    /\ (pc \in {"ackFull", "ackDelta"} /\ pc' # pc) =>
          /\ ret'.returned
          /\ ret'.err = res.err
          /\ ret'.snap = res.snap
          /\ (res.err # "none") => (pc' = "stop" /\ runErr' = res.err)
          /\ (res.err = "none") => (pc' = "select")

C5_Step ==
    /\ InProgress' => SsrState' = "Active"
    /\ ((lossDuringTrigger \/ SsrState = "Inactive") /\ CallIssued) =>
          /\ ret'.returned
          /\ ret'.err = "notActive"
          /\ cpc' = cpc

\* C5: while an externally triggered snapshot is in progress the state stays
\* Active, and once the Snapshotter was stopped during such a snapshot (or
\* is Inactive) every trigger issued returns "snapshotter is not active"
\* without reaching the request channel.
C5_LeaderLoss == [][C5_Step]_vars

C6_Step ==
    (CallIssued /\ SsrState # "Active") =>
       /\ ret'.returned
       /\ ret'.err = "notActive"
       /\ cpc' = cpc
       /\ UNCHANGED <<PrevSnapshot, PrevFullSnapshot, PrevDeltaSnapshots,
                      events, saved, inFlight>>

\* C6: a trigger entered while SsrState is not Active returns "snapshotter is
\* not active", puts nothing on a request channel, starts no Save and leaves
\* the snapshots and the buffer as they are.
C6_TriggerNotActive == [][C6_Step]_vars

\* A trigger has just returned "not active" beside a running event loop that
\* holds buffered events.
C6_Witness ==
    /\ ret.returned
    /\ ret.err = "notActive"
    /\ pc = "select"
    /\ events # <<>>

\* C7: no Delta starting at LastRevision + 1 of a Final Full is saved right
\* after that Full.
C7_FinalTerminates ==
    ~(/\ Len(saved) = 2
      /\ saved[1].snap.kind = "Full"
      /\ saved[1].snap.final
      /\ saved[2].snap.kind = "Delta"
      /\ saved[2].snap.start = saved[1].snap.last + 1)

\* A final full snapshot request is received while the previous snapshot is
\* a Final Full at the latest revision of the KV store.
SecondFinalReceived ==
    /\ pc = "select"
    /\ \E c \in Callers : cpc[c] = "sendFull" /\ carg[c] /\ cpc'[c] = "waitFull"
    /\ PrevSnapshot.kind = "Full"
    /\ PrevSnapshot.final
    /\ PrevSnapshot.last = etcdRev

C8_Step ==
    SecondFinalReceived =>
       /\ inFlight' = inFlight
       /\ saved' = saved
       /\ pc' = "ackFull"
       /\ (res'.err = "none") => (res'.snap = PrevSnapshot)

\* Two Final Fulls at the same revision were never saved one after the other.
C8_OneFinal ==
    ~(/\ Len(saved) = 2
      /\ saved[1].snap.kind = "Full" /\ saved[1].snap.final
      /\ saved[2].snap.kind = "Full" /\ saved[2].snap.final
      /\ saved[1].snap.last = saved[2].snap.last)

\* C8: a second final full snapshot trigger with no KV mutation and no other
\* snapshot since the first saves nothing and returns the first's snapshot.
C8_FinalIdempotence == []C8_OneFinal /\ [][C8_Step]_vars

\* The second final trigger is at the request channel: the first one's Final
\* Full is the last snapshot saved and the KV store has not moved.
C8_Witness ==
    /\ pc = "select"
    /\ \E c \in Callers : cpc[c] = "sendFull" /\ carg[c]
    /\ Len(saved) >= 1
    /\ Last(saved).snap = PrevSnapshot
    /\ PrevSnapshot.final
    /\ PrevSnapshot.last = etcdRev

\* C9: with delta snapshotting disabled no Delta is ever saved and no
\* TriggerDeltaSnapshot call gets past its checks.
C9_DeltaDisabled ==
    ~cfg.deltaEnabled =>
       /\ \A i \in 1..Len(saved) : saved[i].snap.kind # "Delta"
       /\ \A c \in Callers : cpc[c] \notin {"sendDelta", "waitDelta"}

\* C10: the buffer is below the memory limit whenever the goroutine is
\* anywhere but in the Save of a delta, and that delta holds the whole buffer.
C10_MemoryLimit ==
    /\ pc # "deltaSave" => BufLen(events) < cfg.memLimit
    /\ pc = "deltaSave" => saving.content = events

\* A watch response filled the buffer to the limit and its delta is being
\* saved, before the delta timer fired.
C10_Witness ==
    /\ pc = "deltaSave"
    /\ ctx = "watch"
    /\ BufLen(events) >= cfg.memLimit
    /\ Len(events) >= 2
    /\ deltaSnapshotTimer = "armed"

\* The event loop takes the stop case: Run returns nil from select.
StopTaken == pc = "select" /\ pc' = "stop" /\ runErr' = "none"

\* Run has returned: the deferred stop() is through.
RunReturned == pc = "stop" /\ pc' = "stopped"

C11_Step ==
    /\ StopTaken =>
          /\ stopCh
          /\ events' = <<>>
          /\ inFlight' = inFlight
          /\ saved' = saved
          /\ saveEnded' = "none"
    /\ RunReturned =>
          /\ fullSnapshotTimer' = "nil"
          /\ deltaSnapshotTimer' = "nil"
          /\ watchCh' = 0
          /\ SsrState' = "Inactive"

\* C11: the stop case of the event loop discards the buffered events and
\* saves nothing, and when Run has returned both timers and the watch are
\* cleared and SsrState is Inactive.
C11_Stopping == [][C11_Step]_vars

\* The loop has taken the stop case with events delivered by the watch that
\* no snapshot holds: they were in the buffer and are gone.
C11_Witness ==
    /\ pc = "stop"
    /\ runErr = "none"
    /\ stopCh
    /\ watchCh > PrevSnapshot.last + 1
    /\ events = <<>>
    /\ inFlight = 0

\* C12: at most one sidecar is in the Leader state with its Snapshotter
\* started.
C12_SingleActiveSnapshotter ==
    Cardinality({m \in Members :
                    CurrentState[m] = "Leader" /\ snapshotterStarted[m]}) <= 1

\* This step is a probe of some elector.
ProbeHandled == lastProbe'.member # 0 /\ lastProbe'.from = CurrentState[lastProbe'.member]

\* The probe handled in this step takes its elector into Leader, out of it.
EntersLeader == ~lastProbe'.err /\ lastProbe'.isLeader /\ lastProbe'.from # "Leader"
LeavesLeader == lastProbe'.from = "Leader" /\ (lastProbe'.err \/ ~lastProbe'.isLeader)

C13_Step ==
    ProbeHandled =>
       /\ Count(invoked', "OnStartedLeading") = (IF EntersLeader THEN 1 ELSE 0)
       /\ Count(invoked', "OnStoppedLeading") = (IF LeavesLeader THEN 1 ELSE 0)
       /\ EntersLeader => CurrentState'[lastProbe'.member] = "Leader"
       /\ LeavesLeader =>
             CurrentState'[lastProbe'.member] =
                (IF lastProbe'.err THEN "Unknown" ELSE "Follower")
       /\ (/\ lastProbe'.from = "Follower"
           /\ ~lastProbe'.err
           /\ ~lastProbe'.isLeader) => CurrentState'[lastProbe'.member] = "Follower"

\* C13: OnStartedLeading is invoked exactly once by the probe that takes the
\* elector into Leader, OnStoppedLeading exactly once by the probe that takes
\* it out, neither by any other probe, and a Follower reported not-leader
\* stays Follower.
C13_CallbacksFollowTransitions == [][C13_Step]_vars

\* An elector that was Leader has just been moved to Follower.
C13_Witness ==
    /\ lastProbe.member # 0
    /\ lastProbe.from = "Leader"
    /\ ~lastProbe.err
    /\ CurrentState[lastProbe.member] = "Follower"
    /\ invoked = <<"OnStoppedLeading">>
    /\ ~snapshotterStarted[lastProbe.member]

C14_Step ==
    (ProbeHandled /\ lastProbe'.err) =>
       /\ CurrentState'[lastProbe'.member] = "Unknown"
       /\ Count(invoked', "StopLeaseRenewal") =
             (IF lastProbe'.from # "Unknown" THEN 1 ELSE 0)
       /\ lastProbe'.from = "Leader" => Count(invoked', "OnStoppedLeading") = 1

\* C14: a failed probe moves the elector to Unknown; StopLeaseRenewal is
\* invoked once when it was not Unknown already and not otherwise, and
\* OnStoppedLeading once when it was Leader.
C14_ProbeError == [][C14_Step]_vars

\* A Leader's probe has just failed.
C14_Witness ==
    /\ lastProbe.member # 0
    /\ lastProbe.err
    /\ lastProbe.from = "Leader"
    /\ CurrentState[lastProbe.member] = "Unknown"
    /\ Count(invoked, "StopLeaseRenewal") = 1
    /\ ~leaseRenewal[lastProbe.member]

C15_Step ==
    ProbeHandled =>
       /\ (/\ ~lastProbe'.err
           /\ lastProbe'.isLearner
           /\ lastProbe'.from \in {"Follower", "Unknown"}) =>
             /\ Count(invoked', "Promote") = 1
             /\ Count(invoked', "OnStartedLeading") = 0
             /\ CurrentState'[lastProbe'.member] = "Follower"
       /\ (/\ ~lastProbe'.err
           /\ ~lastProbe'.isLearner
           /\ ~lastProbe'.isLeader) => Count(invoked', "Promote") = 0

\* C15: a probe reporting a learner to a Follower or Unknown elector invokes
\* Promote once, not OnStartedLeading, and leaves it Follower; a probe
\* reporting a voting non-leader invokes no Promote.
C15_Learner == [][C15_Step]_vars

\* A learner has just been promoted by its elector, which came from Unknown.
C15_Witness ==
    /\ lastProbe.member # 0
    /\ lastProbe.isLearner
    /\ lastProbe.from = "Unknown"
    /\ Count(invoked, "Promote") = 1
    /\ lastProbe.member \notin learner
    /\ CurrentState[lastProbe.member] = "Follower"

\* C16: when the restoration from the snapshot chain fails, Initialize
\* returns an error and the data directory is the one Initialize found:
\* neither removed nor replaced.
C16_RestoreFailureLeavesDataDir ==
    "restoreFailed" \in ilog =>
        /\ iret = "error"
        /\ dataDir = given.dataDir0

C16_Witness ==
    /\ "restoreFailed" \in ilog
    /\ given.status = "DataDirectoryCorrupt"
    /\ given.store = "chain"
    /\ iret = "error"
    /\ dataDir = "previous"
    /\ partDir = "partial"

\* C17: once the restoration has succeeded, the path dataDir holds, in every
\* state up to the end of the swap and after a failure or a crash within
\* it, either the complete directory Initialize found or the complete
\* restored one.
C17_AtomicSwap ==
    "restored" \in ilog => dataDir \in {given.dataDir0, "restored"}

\* Initialize has returned in a single-node setting with a snap store that
\* holds no snapshot or is not configured.
SingleNodeEmptyStoreDone ==
    /\ ipc = "done"
    /\ iret \in {"nil", "error"}
    /\ ~given.multiNode
    /\ given.OriginalClusterSize = 1
    /\ given.store \in {"nil", "noProvider", "empty"}

\* C18 as stated: single node, status Corrupt or Unknown, no snapshot in the
\* snap store (or none configured): Initialize wipes the data directory and
\* returns no error (no file-system operation failing).
C18_Original ==
    ( /\ SingleNodeEmptyStoreDone
      /\ given.status \in {"DataDirectoryCorrupt", "DataDirectoryStatusUnknown"}
      /\ "fsFailed" \notin ilog )
    => /\ iret = "nil"
       /\ dataDir = "absent"
       /\ "wipedDataDir" \in ilog

\* C18 amended: single node, no snapshot in the snap store (or none
\* configured): on status Corrupt Initialize removes the data directory and
\* returns no error, or returns an error when a file-system operation fails;
\* on status Unknown it returns an error and leaves the directory as found.
C18_SingleNodeEmptyStore ==
    SingleNodeEmptyStoreDone =>
        /\ (given.status = "DataDirectoryCorrupt" /\ "fsFailed" \notin ilog)
              => (iret = "nil" /\ dataDir = "absent" /\ "wipedDataDir" \in ilog)
        /\ (given.status = "DataDirectoryCorrupt" /\ "fsFailed" \in ilog)
              => iret = "error"
        /\ given.status = "DataDirectoryStatusUnknown"
              => /\ iret = "error"
                 /\ dataDir = given.dataDir0
                 /\ "wipedDataDir" \notin ilog

C18_Witness ==
    /\ SingleNodeEmptyStoreDone
    /\ given.status = "DataDirectoryCorrupt"
    /\ given.store = "empty"
    /\ given.dataDir0 = "previous"
    /\ iret = "nil"
    /\ dataDir = "absent"
    /\ "wipedDataDir" \in ilog

\* Initialize has validated the data directory in multi-node mode, for a
\* member that was in the cluster before (of a cluster of more than one
\* member) or a directory that is InvalidInMultiNode, with a status that
\* does not abort the initialization.
MultiNodeRejoinCase ==
    /\ "validated" \in ilog
    /\ given.multiNode
    /\ \/ given.heartbeat /\ given.OriginalClusterSize > 1
       \/ given.status = "DataDirStatusInvalidInMultiNode"
    /\ ~AbortsInitialization(given.status)

\* C19 as stated: in that case, for every such status, an Initialize that
\* returned no error has removed the member, wiped the data directory and
\* added the member again as a learner.
C19_Original ==
    (MultiNodeRejoinCase /\ ipc = "done" /\ iret = "nil")
    => /\ {"removedMember", "wipedDataDir", "addedLearner"} \subseteq ilog
       /\ membership = "learner"
       /\ dataDir = "absent"

\* C19 amended: in that case, for every such status but Valid, Initialize
\* removes the member, then wipes the data directory, then adds the member
\* again as a learner, and has done all three when it returns no error; on
\* status Valid it does none of the three.
C19_MultiNode ==
    MultiNodeRejoinCase =>
        IF given.status = "DataDirectoryValid"
        THEN /\ ilog \cap {"removedMember", "wipedDataDir", "addedLearner"} = {}
             /\ dataDir = given.dataDir0
             /\ membership = (IF given.heartbeat THEN "voting" ELSE "none")
        ELSE /\ "wipedDataDir" \in ilog => "removedMember" \in ilog
             /\ "addedLearner" \in ilog => "wipedDataDir" \in ilog
             /\ (ipc = "done" /\ iret = "nil")
                   => /\ "addedLearner" \in ilog
                      /\ membership = "learner"
                      /\ dataDir = "absent"

C19_Witness ==
    /\ MultiNodeRejoinCase
    /\ given.heartbeat
    /\ given.status = "DataDirectoryCorrupt"
    /\ ipc = "done"
    /\ iret = "nil"
    /\ {"removedMember", "wipedDataDir", "addedLearner"} \subseteq ilog
    /\ membership = "learner"
    /\ dataDir = "absent"

\* The scale-up case: multi-node mode, no member heartbeat, scale-up detected.
ScaleUpCase ==
    /\ given.multiNode
    /\ ~given.heartbeat
    /\ given.scaleUp = "yes"

C21_ValidIsNoop ==
    ("validated" \in ilog /\ given.status = "DataDirectoryValid") =>
        /\ ilog \subseteq {"scaleUpChecked", "validated", "fsFailed"}
        /\ dataDir = given.dataDir0
        /\ partDir = given.partDir0
        /\ membership = (IF given.heartbeat THEN "voting" ELSE "none")
        /\ attempts = 0
        /\ ipc \in {"tempDir", "done"}

C21_Witness ==
    /\ "validated" \in ilog
    /\ given.status = "DataDirectoryValid"
    /\ given.multiNode
    /\ given.heartbeat
    /\ given.OriginalClusterSize = 3
    /\ given.store = "chain"
    /\ ipc = "done"
    /\ iret = "nil"
    /\ dataDir = "previous"
    /\ membership = "voting"

C22_Step ==
    /\ rot' # "none" =>
          /\ secretModifiedTime > lastSecretModifiedTime
          /\ lastSecretModifiedTime' = secretModifiedTime
    /\ rot' = "rebuilt" =>
          /\ store' = secretModifiedTime
          /\ res'.err # "snapstore"
          /\ runErr' # "snapstore"
    /\ rot' = "failed" =>
          /\ store' = store
          /\ \/ res'.err = "snapstore" /\ pc' \in {"ackFull", "ackDelta"}
             \/ runErr' = "snapstore" /\ pc' = "stop"
    /\ rot' = "none" =>
          /\ store' = store
          /\ lastSecretModifiedTime' = lastSecretModifiedTime

C27_Original == rot = "rebuilt" => SsrStateMutex # 0

C27_Step ==
    /\ SsrState' # SsrState => (SsrStateMutex = 0 /\ SsrStateMutex' = 0)
    /\ (ret'.returned /\ ret'.err = "notActive") =>
          (SsrStateMutex = 0 /\ SsrStateMutex' = 0 /\ SsrState = "Inactive")
    /\ rot' = "rebuilt" =>
          /\ pc \in {"select", "catchup"}
          /\ \A c \in Callers :
                (cpc[c] \in {"sendFull", "sendDelta"} /\ cpc'[c] # cpc[c])
                   => (SsrStateMutex = c /\ SsrStateMutex' = c)

\* C27 amended: SsrState is written, and read by the triggers, only by one
\* who took the free mutex; the Snap Store handle is replaced only by the
\* Run goroutine, which takes no mutex: in an externally triggered snapshot
\* the triggering caller holds SsrStateMutex meanwhile, in a timer-driven or
\* memory-limit snapshot it need not be held by anyone.
C27_MutexDiscipline == [][C27_Step]_vars

C27_Witness ==
    /\ rot = "rebuilt"
    /\ store = 2
    /\ SsrStateMutex # 0
    /\ ctx = "trigger"
    /\ pc = "fullSave"

\* The hours field of a five-field schedule carries the step n.
CarriesStep(schedule, n) == \E b \in StepBases : schedule[hour + 1] = Step(b, n)

\* C24: GetFullSnapshotMaxTimeWindow returns 168 whenever the day-of-week
\* field is not "*", whatever the other fields; N when day-of-month and
\* day-of-week are both "*" and the hours field carries a /N step; and 24 in
\* every other case, schedules of fewer than five fields included.
C24_MaxTimeWindow ==
    timeWindow # -1 =>
       LET s == fullSnapScheduleSpec IN
       IF Len(s) < 5 THEN timeWindow = 24
       ELSE IF s[5] # <<"*">> THEN timeWindow = 168
       ELSE IF s[3] = <<"*">> /\ \E n \in StepValues : CarriesStep(s, n)
       THEN CarriesStep(s, timeWindow)
       ELSE timeWindow = 24

C24_Witness ==
    /\ fullSnapScheduleSpec = <<<<"0">>, <<"*", "/", "1", "2">>, <<"*">>, <<"*">>, <<"*">>>>
    /\ timeWindow = 12

\* The slot of the schedule before the next one after now: the last multiple
\* of the time window that is not after now.
PreviousSlot(st) == (st.now \div st.timeWindow) * st.timeWindow

\* C23: IsFullSnapshotRequiredAtStartup(timeWindow) returns true if and only
\* if no previous Full exists, or it is Final, or the previous full snapshot
\* attempt did not succeed, or the previous Full is older than timeWindow
\* hours, or the previous scheduled slot was missed and the time to the
\* next slot plus the age of the previous Full exceeds timeWindow.
C23_FullRequiredAtStartup ==
    required # "notCalled" =>
       LET prev == startup.PrevFullSnapshot
           age == startup.now - prev.CreatedOn
           toNext == PreviousSlot(startup) + startup.timeWindow - startup.now
       IN  required = "true" <=>
              \/ ~prev.exists
              \/ prev.IsFinal
              \/ ~startup.PrevFullSnapshotSucceeded
              \/ age > startup.timeWindow
              \/ /\ prev.CreatedOn # PreviousSlot(startup)
                 /\ toNext + age > startup.timeWindow

C23_Witness ==
    /\ required = "true"
    /\ startup.PrevFullSnapshot = [exists |-> TRUE, CreatedOn |-> 2, IsFinal |-> FALSE]
    /\ startup.PrevFullSnapshotSucceeded
    /\ startup.now = 4
    /\ startup.timeWindow = 3

\* C25: startup catch-up. On Run with startWithFullSnapshot = false and
\* PrevSnapshot.LastRevision different from the latest revision R, the
\* watch opened at PrevSnapshot.LastRevision + 1 is drained until an event
\* with ModRevision >= R is received, the buffered events are flushed as a
\* catch-up delta, and only then is the full-snapshot timer armed: the step
\* that ends the catch-up and arms the timer leaves the buffer empty and
\* PrevSnapshot at a revision >= R.
C25_CatchupFlushed ==
    [][(/\ pc = "catchup" \/ (pc = "deltaSave" /\ ctx = "catchup")
        /\ pc' = "select"
        /\ fullSnapshotTimer' = "armed")
       => (/\ events' = <<>>
           /\ PrevSnapshot'.last >= lastEtcdRevision)]_vars

\* C26 as stated: the Event Buffer is emptied only on a successful delta
\* upload or on shutdown; a delta attempt whose Save (or credential check,
\* or compression) fails leaves the buffered events in place.
C26_Original ==
    [][(events # <<>> /\ events' = <<>>)
       => \/ pc = "deltaSave" /\ saveEnded' = "saved"
          \/ stopCh /\ pc' = "stop" /\ runErr' = "none"]_vars

\* A step in which a snapshot attempt of the Run goroutine returns, or in
\* which the goroutine takes the stop signal.
C26_AttemptOrStop ==
    \/ pc \in {"deltaSave", "fullSave"} /\ pc' # pc
    \/ pc \in {"select", "catchup"} /\ pc' \in {"stop", "ackFull", "ackDelta"}

\* C26, amended: the Event Buffer is emptied when a delta snapshot attempt
\* returns, whether it succeeded or failed, when a full snapshot attempt
\* returns, and on shutdown; a delta attempt whose Save fails discards the
\* buffered events.
C26_EmptiedOnEveryReturn ==
    [][/\ (events # <<>> /\ events' = <<>>) => C26_AttemptOrStop
       /\ (pc \in {"deltaSave", "fullSave"} /\ pc' # pc) => events' = <<>>
       /\ (pc \in {"select", "catchup"} /\ stopCh /\ pc' = "stop"
             /\ runErr' = "none") => events' = <<>>]_vars

\* The Save of a delta failed: the events the watch had delivered beyond
\* PrevSnapshot are gone from the buffer.
C26_Witness ==
    /\ saveEnded = "failed"
    /\ watchCh > PrevSnapshot.last + 1
    /\ events = <<>>

\* C28: after a successful full snapshot taken at the latest revision R,
\* PrevSnapshot and PrevFullSnapshot both denote the new snapshot
\* (LastRevision = R), PrevDeltaSnapshots is empty, the Event Buffer is
\* empty, any previous watch has been closed and, when delta snapshotting
\* is enabled, a new watch is open from revision R + 1. The step is the
\* return of the save when the whole operation returns no error.
C28_AfterFullSnapshot ==
    [][/\ (pc # "fullSave" /\ pc' = "fullSave")
          => (/\ saving'.snap.kind = "Full"
              /\ saving'.snap.last = etcdRev
              /\ watchCh' = 0)
       /\ (/\ pc = "fullSave"
           /\ saveEnded' = "saved"
           /\ runErr' = "none"
           /\ res'.err = "none")
          => (/\ PrevSnapshot' = saving.snap
              /\ PrevFullSnapshot' = saving.snap
              /\ PrevDeltaSnapshots' = <<>>
              /\ events' = <<>>
              /\ watchCh' = (IF cfg.deltaEnabled
                             THEN saving.snap.last + 1 ELSE 0))]_vars

\* A full snapshot at revision 1 has just been saved and the loop is back
\* in select: the chain is the new snapshot alone, the buffer is empty and
\* the new watch starts at revision 2.
C28_Witness ==
    /\ saveEnded = "saved"
    /\ PrevSnapshot = NewSnapshot("Full", 0, 1, FALSE)
    /\ PrevFullSnapshot = PrevSnapshot
    /\ PrevDeltaSnapshots = <<>>
    /\ events = <<>>
    /\ watchCh = 2
    /\ pc = "select"

\* C29: after a successful delta upload, the new Delta (StartRevision =
\* previous PrevSnapshot.LastRevision + 1, LastRevision = LastEventRevision)
\* is the last element of PrevDeltaSnapshots and is PrevSnapshot,
\* PrevFullSnapshot is unchanged, earlier elements of PrevDeltaSnapshots
\* are unchanged, and the Event Buffer is empty.
C29_AfterDeltaSnapshot ==
    [][(pc = "deltaSave" /\ saveEnded' = "saved")
       => (/\ PrevSnapshot'.kind = "Delta"
           /\ PrevSnapshot'.start = PrevSnapshot.last + 1
           /\ PrevSnapshot'.last = lastEventRevision
           /\ lastEventRevision = Last(events)
           /\ PrevDeltaSnapshots' = Append(PrevDeltaSnapshots, PrevSnapshot')
           /\ PrevFullSnapshot' = PrevFullSnapshot
           /\ events' = <<>>)]_vars

\* A second delta was saved after a first one: the chain holds both, the
\* first unchanged, and the buffer is empty.
C29_Witness ==
    /\ saveEnded = "saved"
    /\ PrevDeltaSnapshots = <<NewSnapshot("Delta", 1, 1, FALSE),
                              NewSnapshot("Delta", 2, 2, FALSE)>>
    /\ PrevSnapshot = NewSnapshot("Delta", 2, 2, FALSE)
    /\ PrevFullSnapshot = NewSnapshot("Full", 0, 0, FALSE)
    /\ events = <<>>

\* C30: a delta snapshot attempt (timer fire, external trigger or memory
\* limit) made with an empty Event Buffer calls no Save, returns no
\* snapshot and no error, and leaves PrevSnapshot, PrevFullSnapshot and
\* PrevDeltaSnapshots unchanged; the delta timer is still re-armed. No
\* Save of a delta starts without events, and with delta snapshotting
\* enabled a step of the event loop that finds the buffer empty and leaves
\* it empty, staying in the loop or acknowledging a delta trigger, starts
\* no Save, carries no snapshot and no error, keeps the chain and leaves
\* the delta timer armed.
C30_EmptyBufferSkipped ==
    [][/\ (pc # "deltaSave" /\ pc' = "deltaSave") => saving'.content # <<>>
       /\ (/\ pc = "select"
           /\ cfg.deltaEnabled
           /\ events = <<>>
           /\ events' = <<>>
           /\ pc' \in {"select", "ackDelta"})
          => (/\ inFlight' = inFlight
              /\ saving' = NoSaving
              /\ res' = NoRes
              /\ runErr' = "none"
              /\ UNCHANGED snapVars
              /\ deltaSnapshotTimer' = "armed")]_vars

\* TriggerDeltaSnapshot has returned neither a snapshot nor an error: its
\* request met an empty buffer.
C30_Witness ==
    /\ ret.returned
    /\ ret.snap = NoSnap
    /\ ret.err = "none"
    /\ events = <<>>
    /\ deltaSnapshotTimer = "armed"
    /\ pc = "select"

\* C31: startup catch-up skip. On Run with startWithFullSnapshot = false,
\* if PrevSnapshot.LastRevision equals the latest revision R, catch-up
\* returns at once with no event buffered and no delta saved, a watch is
\* left open from PrevSnapshot.LastRevision + 1, and the full-snapshot
\* timer is armed per schedule (Run returns the schedule's error when it
\* has no slot left). The step is Run opening the watch.
C31_CatchupSkipped ==
    [][(/\ pc = "stopped"
        /\ pc' # "stopped"
        /\ watchCh' # 0
        /\ PrevSnapshot.last = etcdRev)
       => (/\ events' = <<>>
           /\ UNCHANGED snapVars
           /\ inFlight' = inFlight
           /\ watchCh' = PrevSnapshot.last + 1
           /\ pc' # "catchup"
           /\ IF cfg.scheduleHasNext
              THEN pc' = "select" /\ fullSnapshotTimer' = "armed"
              ELSE pc' = "stop" /\ runErr' = "schedule")]_vars

\* Run starts on a chain that ends at the latest revision 1: the loop is
\* in select with the watch open from revision 2 and nothing buffered.
C31_Witness ==
    /\ pc = "select"
    /\ PrevSnapshot.last = 1
    /\ etcdRev = 1
    /\ watchCh = 2
    /\ events = <<>>
    /\ fullSnapshotTimer = "armed"
    /\ SsrState = "Inactive"
    /\ saved = <<>>

\* C32: before every full snapshot write and every non-empty delta write
\* the credentials' modification time is probed; the Snap Store handle is
\* rebuilt before that write if and only if the probed time is strictly
\* newer than the last observed one, and the last observed time never
\* decreases. The write starts in the step that enters the save.
C32_ProbedBeforeWrite ==
    [][/\ (pc \notin {"fullSave", "deltaSave"} /\ pc' \in {"fullSave", "deltaSave"})
          => (/\ rot' \in {"none", "rebuilt"}
              /\ rot' = "rebuilt" <=> secretModifiedTime > lastSecretModifiedTime
              /\ store' = (IF secretModifiedTime > lastSecretModifiedTime
                           THEN secretModifiedTime ELSE store)
              /\ lastSecretModifiedTime' >= secretModifiedTime)
       /\ lastSecretModifiedTime' >= lastSecretModifiedTime]_vars

\* A full snapshot is being written through a handle rebuilt for the
\* credentials' second change.
C32_Witness ==
    /\ pc = "fullSave"
    /\ rot = "rebuilt"
    /\ secretModifiedTime = 2
    /\ lastSecretModifiedTime = 2
    /\ store = 2
    /\ saved # <<>>

\* C39: if a credential rotation is detected but rebuilding the Snap Store
\* handle fails, the rotation stays pending: the next full or delta
\* snapshot attempt detects it again and rebuilds the handle before
\* writing, so no write is ever made with a handle older than the last
\* observed credentials.
C39_NoWriteWithOldHandle ==
    pc \in {"fullSave", "deltaSave"} => store >= lastSecretModifiedTime

\* Initialize went into restoreInMultiNode.
C33_InMultiNodeRestore ==
    /\ "validated" \in ilog
    /\ ~AbortsInitialization(given.status)
    /\ RestoresInMultiNode(given.status, given.OriginalClusterSize, given.heartbeat)

\* C33: ordering in restoreInMultiNode. The member is removed from the
\* cluster before the data directory is deleted; AddMemberAsLearner is
\* only ever invoked, on every retry, when the data directory does not
\* exist; and if member removal fails after its retries the data directory
\* is not deleted and no learner is added.
C33_RestoreInMultiNodeOrder ==
    C33_InMultiNodeRestore =>
       /\ "addMemberWithDataDir" \notin ilog
       /\ "removedMember" \notin ilog =>
             /\ dataDir = given.dataDir0
             /\ ilog \cap {"wipedDataDir", "fsFailed", "addedLearner",
                           "addMemberWithoutDataDir"} = {}
             /\ membership # "learner"
       /\ "wipedDataDir" \notin ilog =>
             ilog \cap {"addedLearner", "addMemberWithoutDataDir"} = {}

\* The learner was added on a retry: an earlier call found the directory
\* created again and could not remove it.
C33_Witness ==
    /\ C33_InMultiNodeRestore
    /\ ilog = {"validated", "removedMember", "wipedDataDir", "fsFailed",
               "addMemberWithoutDataDir", "addedLearner"}
    /\ membership = "learner"
    /\ dataDir = "absent"

\* C34: stop always completes under concurrent triggers. If the stop
\* channel fires, or the event loop exits with an error, while triggers
\* are being issued, Run eventually returns with SsrState = Inactive and
\* every trigger call eventually returns. Then no state is reached in
\* which the event loop has exited, its deferred stop() waits for the
\* mutex, and the caller holding the mutex waits to send its request to
\* the loop that is gone: from such a state neither ever returns.
C34_StopCompletes ==
    ~ /\ pc = "stop"
      /\ \E c \in Callers : /\ SsrStateMutex = c
                            /\ cpc[c] \in {"sendFull", "sendDelta"}

\* C35: Run terminates on an early exit. When Run(startWithFullSnapshot =
\* false) ends during startup catch-up (stop signalled, catch-up error, or
\* no future slot in the schedule), Run returns, also when snapshot lease
\* renewal is enabled: the deferred stop never blocks on the
\* lease-renewal stop channel. Then stop() never stands at its send with
\* lease renewal enabled and the renewal goroutine not started, a state in
\* which the channel has no receiver.
C35_StopNeverBlocks ==
    ~ /\ rpc = "stopLease"
      /\ SnapshotLeaseRenewalEnabled
      /\ renewer = "none"

\* C36: whenever the event loop or the startup catch-up exits, for any
\* reason (stop, watch channel closed, watch error, snapshot failure), the
\* Event Buffer is empty; consequently a later Run on the same Snapshotter
\* never saves a Delta that contains an event twice or an event buffered
\* during an earlier run: no Delta handed to Save holds a revision twice.
C36_BufferEmptyOnExit ==
    /\ pc \in {"stop", "stopped"} => events = <<>>
    /\ pc = "deltaSave" =>
          \A i, j \in 1..Len(saving.content) :
             saving.content[i] = saving.content[j] => i = j

C38_EmptyResponseHandled ==
    [][(pc = "catchup" /\ pc' # "catchup" /\ UNCHANGED bufVars)
       => pc' \in {"select", "stop"}]_vars

\* C40: under any number of concurrent TriggerFullSnapshot and
\* TriggerDeltaSnapshot callers, at most one external request is
\* outstanding at a time, exactly one acknowledgement is sent for each
\* accepted request (also when the snapshot fails), and the result a caller
\* receives is the result of the snapshot attempt made for its own request.
\* In every state: at most one caller is inside a trigger and it holds the
\* lock; a caller whose request was received waits while the goroutine
\* makes the attempt for it or holds its result ready to be sent; and a
\* result is ready to be sent only to such a caller.
C40_OneOutstanding ==
    /\ Cardinality({c \in Callers : cpc[c] # "idle"}) <= 1
    /\ \A c \in Callers :
          /\ cpc[c] # "idle" => SsrStateMutex = c
          /\ cpc[c] = "waitFull" =>
                \/ pc = "fullSave" /\ ctx = "trigger"
                \/ pc = "ackFull"
          /\ cpc[c] = "waitDelta" =>
                \/ pc = "deltaSave" /\ ctx = "trigger"
                \/ pc = "ackDelta"
    /\ pc = "ackFull" => \E c \in Callers : cpc[c] = "waitFull"
    /\ pc = "ackDelta" => \E c \in Callers : cpc[c] = "waitDelta"

\* In every step: a waiting caller returns only by the acknowledgement,
\* which hands it the result held by the goroutine and is sent once; the
\* result is the one of the attempt made while this caller waited, and it
\* is not replaced before it is sent.
C40_AckStep ==
    /\ \A c \in Callers :
          (cpc[c] \in {"waitFull", "waitDelta"} /\ cpc'[c] # cpc[c]) =>
             /\ cpc'[c] = "idle"
             /\ pc = IF cpc[c] = "waitFull" THEN "ackFull" ELSE "ackDelta"
             /\ pc' \notin {"ackFull", "ackDelta"}
             /\ ret' = Returned(res)
    /\ (pc \in {"ackFull", "ackDelta"} /\ pc' = pc) => res' = res
    /\ (pc \notin {"ackFull", "ackDelta"} /\ pc' \in {"ackFull", "ackDelta"}) =>
          /\ \E c \in Callers : cpc'[c] \in {"waitFull", "waitDelta"}
          /\ \/ pc = "select"
             \/ pc \in {"fullSave", "deltaSave"} /\ ctx = "trigger"

C40_OneRequestOneAck == []C40_OneOutstanding /\ [][C40_AckStep]_vars

\* A caller is handed the error of the failed snapshot attempt made for
\* its request while the other caller has returned.
C40_Witness ==
    /\ ret.returned
    /\ ret.err \notin {"none", "notActive", "disabled"}
    /\ ret.snap = NoSnap
    /\ SsrStateMutex = 0
    /\ \A c \in Callers : cpc[c] = "idle"

====
